---- MODULE Spec2Model ----
(***************************************************************************)
(* AegisShield: retry/backoff wrappers, the NVD and OTX feed clients, the  *)
(* batch pipeline (main-batch.py) with its worker pool, the interactive    *)
(* seven-step session (tabs/step*.py), MITRE ATT&CK technique selection    *)
(* (mitre_attack.py) and the stage generators of steps 4 to 6, modelled as *)
(* state machines.                                                         *)
(***************************************************************************)
EXTENDS Integers, Sequences, FiniteSets, TLC

VARIABLES
    pc,             \* position of the feed operation under way
    op,             \* top-level operation: retry_with_backoff, search_nvd, fetch_otx_data
    module,         \* module whose retry_with_backoff runs: nvd, otx, tm
    func,           \* the callable handed to retry_with_backoff
    max_retries,    \* retry_with_backoff: max_retries / config.max_retries
    initial_delay,  \* retry_with_backoff: initial_delay / config.initial_delay
    attempt,        \* retry_with_backoff: loop variable attempt
    delay,          \* retry_with_backoff: local delay
    log,            \* observable events: func calls, time.sleep, handle_exception
    rret,           \* outcome of retry_with_backoff (return value or raised exception)
    cpe_name,       \* search_nvd: local cpe_name
    top_n,          \* search_nvd: top_n / fetch_otx_data: max_results
    modified_since, \* fetch_otx_data: now minus the lookback window
    result,         \* outcome of the top-level operation
    b_pc,           \* process_batch: position
    b_outer,        \* process_batch: iterations of the outer loop started
    b_inner,        \* process_batch: iterations of the inner loop started
    b_attempt,      \* process_batch: the variable attempt, shared by both loops
    b_tm,           \* process_batch: local threat_model
    b_calls,        \* process_batch: calls of get_threat_model made
    b_sleep,        \* process_batch: duration of its latest time.sleep
    b_handled,      \* process_batch: its handle_exception calls
    b_ret,          \* process_batch: what it returned
    batch_iteration,\* batch loop: number of the batch being processed
    results,        \* batch loop: the records written to the output file
    s_pc,           \* interactive session: position inside the step 3 handler
    completed,      \* st.session_state['step<n>_completed']
    session,        \* st.session_state, the artifact keys
    threat_model,   \* step 3 render: local threat_model
    retry_count,    \* step 3 render: local retry_count
    nvd_found,      \* step 3 render: local nvd_vulnerabilities is non-empty
    model_output,   \* step 3 render: local model_output, the latest provider response
    llm_calls,      \* step 3 render: get_threat_model calls made since the click
    last,           \* the latest button handler and how it ended
    m_pc,           \* technique selection: position
    pipeline,       \* technique selection: interactive session or batch run
    generated,      \* the threats as the threat model generation produced them
    stix_data,      \* process_mitre_attack_data: argument stix_data
    app_details,    \* process_mitre_attack_data: argument app_details
    m_threat_model, \* process_mitre_attack_data: argument threat_model
    processed_data, \* process_mitre_attack_data: local processed_data
    m_trace,        \* process_mitre_attack_data: what each loop iteration did
    m_handled,      \* process_mitre_attack_data: its handle_exception calls
    g_pc,           \* stage generator: position
    stage,          \* stage generator: which of the three generators runs
    generator,      \* stage generator: the get_* function it calls, real or a double
    model_provider, \* stage generator: argument model_provider
    g_session,      \* stage generator: st.session_state, the keys it reads and writes
    g_retry_count,  \* stage generator: local retry_count
    g_value,        \* stage generator: the local it returns
    g_attempts,     \* stage generator: the calls of the get_* function so far
    g_warnings,     \* stage generator: st.warning calls
    g_handled,      \* stage generator: its handle_exception calls
    g_inner_handled,\* the handle_exception calls of the get_* function
    g_error,        \* stage generator: the names listed by its st.error message
    g_ret,          \* stage generator: what it returned
    p_main,         \* batch loop: position of the main thread
    submitted,      \* batch loop: futures submitted so far
    w_pc,           \* per batch iteration: position of its process_batch call
    w_result,       \* per batch iteration: what its process_batch call returned
    starts,         \* per batch iteration: times a worker entered process_batch
    yielded,        \* batch loop: futures that as_completed has yielded
    cur,            \* batch loop: batch number of the result being written
    handles,        \* open handles of the output file, by the record they are for
    file,           \* the output file: what was written, and for which record
    first_batch,    \* batch loop: local first_batch
    p_results,      \* batch loop: local results, by batch number
    timed_out,      \* batch loop: as_completed has raised TimeoutError
    late,           \* batch iterations whose call returned after the timeout
    q_pc,           \* record selection: position in search_nvd or fetch_otx_data
    q_op,           \* record selection: the function that runs
    q_top_n,        \* record selection: top_n of search_nvd, max_results of fetch_otx_data
    q_cve_results,  \* search_nvd: the CVEs the feed returned
    q_top_results,  \* search_nvd: local top_results
    q_pulses,       \* fetch_otx_data: the list under "results" of the reply
    q_modified_since, \* fetch_otx_data: now minus the lookback window
    q_adversary,    \* fetch_otx_data: argument adversary
    q_malware_family, \* fetch_otx_data: argument malware_family
    q_tlp,          \* fetch_otx_data: argument tlp
    q_filtered_pulses, \* fetch_otx_data: local filtered_pulses
    q_sorted_pulses, \* fetch_otx_data: local sorted_pulses
    q_result,       \* record selection: what the function returned
    q_handled,      \* record selection: handle_exception calls
    e_pc,           \* step 3 lookups: position in the button handler
    nvd_api_key,    \* step 3 lookups: the session has an NVD API key
    alienvault_api_key, \* step 3 lookups: the session has an OTX API key
    selected_technologies, \* step 3 lookups: the technologies selected in step 2
    e_next,         \* step 3 lookups: index of the next technology of the loop
    nvd_calls,      \* step 3 lookups: search_nvd calls made, by technology
    nvd_vulnerabilities, \* step 3 lookups: technologies with an entry in the local
    otx_vulnerabilities, \* step 3 lookups: local otx_vulnerabilities
    e_handled,      \* step 3 lookups: messages of its handle_exception calls
    e_errors,       \* step 3 lookups: messages of its st.error calls
    c_pc,           \* fetch_cpe_name: position
    cpe_prefix,     \* fetch_cpe_name: argument cpe_prefix
    c_version,      \* fetch_cpe_name: argument version, Absent when not passed
    cpe_match_string, \* fetch_cpe_name: the cpeMatchString given to searchCPE
    c_reply,        \* fetch_cpe_name: what searchCPE did
    c_ret,          \* fetch_cpe_name: what _fetch_cpe returned
    t_pc,           \* the markdown conversions: position
    t_op,           \* the markdown conversions: the function called
    t_threats,      \* the markdown conversions: the entries of its argument
    t_rows,         \* the markdown conversions: the rows appended to markdown_output
    t_ret,          \* the markdown conversions: what the call returned or raised
    t_errors,       \* the markdown conversions: number of st.error calls
    k_pc,           \* get_* call: position
    k_func,         \* get_* call: the function called
    k_api_key,      \* get_* call: argument api_key
    k_prompt,       \* get_* call: argument prompt
    k_handled,      \* get_* call: messages of its handle_exception calls
    k_requests,     \* get_* call: requests made to the provider
    k_ret           \* get_* call: what the call returned or raised

feedVars == <<pc, op, module, func, max_retries, initial_delay, attempt, delay,
              log, rret, cpe_name, top_n, modified_since, result>>

batchVars == <<b_pc, b_outer, b_inner, b_attempt, b_tm, b_calls, b_sleep, b_handled,
               b_ret, batch_iteration, results>>

sessionVars == <<s_pc, completed, session, threat_model, retry_count, nvd_found,
                 model_output, llm_calls, last>>

mitreVars == <<m_pc, pipeline, generated, stix_data, app_details, m_threat_model,
               processed_data, m_trace, m_handled>>

stageVars == <<g_pc, stage, generator, model_provider, g_session, g_retry_count,
               g_value, g_attempts, g_warnings, g_handled, g_inner_handled, g_error,
               g_ret>>

poolVars == <<p_main, submitted, w_pc, w_result, starts, yielded, cur, handles, file,
              first_batch, p_results, timed_out, late>>

selectVars == <<q_pc, q_op, q_top_n, q_cve_results, q_top_results, q_pulses,
                q_modified_since, q_adversary, q_malware_family, q_tlp,
                q_filtered_pulses, q_sorted_pulses, q_result, q_handled>>

enrichVars == <<e_pc, nvd_api_key, alienvault_api_key, selected_technologies, e_next,
                nvd_calls, nvd_vulnerabilities, otx_vulnerabilities, e_handled,
                e_errors>>

cpeVars == <<c_pc, cpe_prefix, c_version, cpe_match_string, c_reply, c_ret>>

transformVars == <<t_pc, t_op, t_threats, t_rows, t_ret, t_errors>>

generatorVars == <<k_pc, k_func, k_api_key, k_prompt, k_handled, k_requests, k_ret>>

extVars == <<mitreVars, stageVars, poolVars, selectVars, enrichVars, cpeVars,
            transformVars, generatorVars>>

generatorOthers == <<feedVars, batchVars, sessionVars, mitreVars, stageVars,
                     poolVars, selectVars, enrichVars, cpeVars, transformVars>>

transformOthers == <<feedVars, batchVars, sessionVars, mitreVars, stageVars,
                     poolVars, selectVars, enrichVars, cpeVars,
                  generatorVars>>

cpeOthers == <<feedVars, batchVars, sessionVars, mitreVars, stageVars, poolVars,
               selectVars, enrichVars,
                  transformVars, generatorVars>>

mitreOthers == <<feedVars, batchVars, sessionVars, stageVars, poolVars, selectVars,
                 enrichVars, cpeVars,
                  transformVars, generatorVars>>

stageOthers == <<feedVars, batchVars, sessionVars, mitreVars, poolVars, selectVars,
                 enrichVars, cpeVars,
                  transformVars, generatorVars>>

poolOthers == <<feedVars, batchVars, sessionVars, mitreVars, stageVars, selectVars,
                enrichVars, cpeVars,
                  transformVars, generatorVars>>

selectOthers == <<feedVars, batchVars, sessionVars, mitreVars, stageVars, poolVars,
                  enrichVars, cpeVars,
                  transformVars, generatorVars>>

enrichOthers == <<feedVars, batchVars, sessionVars, mitreVars, stageVars, poolVars,
                  selectVars, cpeVars,
                  transformVars, generatorVars>>

vars == <<feedVars, batchVars, sessionVars, extVars>>

----------------------------------------------------------------------------
(* Bounds *)
MaxRetriesBound == 3
MaxInitialDelay == 2
MaxTopN == 2
MaxTime == 2

(* Program constants *)
NVDConfig_max_retries == 3
NVDConfig_initial_delay == 1
DefaultMaxRetries == 3
DefaultInitialDelay == 1

----------------------------------------------------------------------------
(* Python values: every value is a tagged record whose payload is a sequence *)
None == [t |-> "None", v |-> <<>>]
Str(s) == [t |-> "str", v |-> <<s>>]
List(xs) == [t |-> "list", v |-> xs]

NoRet == [type |-> "none", value |-> None, cls |-> "", msg |-> ""]
Return(val) == [type |-> "return", value |-> val, cls |-> "", msg |-> ""]
Raise(c, m) == [type |-> "raise", value |-> None, cls |-> c, msg |-> m]

(* requests.exceptions: Timeout, ConnectionError and HTTPError derive from *)
(* RequestException                                                        *)
RequestExceptionClasses == {"RequestException", "Timeout", "ConnectionError", "HTTPError"}

IsTransientMut(cls) == cls \in RequestExceptionClasses \cup {"ValueError"}
IsTransient(cls) == cls \in RequestExceptionClasses

(* log entries *)
CallEv(n, f, k, m, st) == [e |-> "call", n |-> n, who |-> f, cls |-> k, msg |-> m, st |-> st]
SleepEv(d) == [e |-> "sleep", n |-> d, who |-> "retry_with_backoff", cls |-> "", msg |-> "", st |-> 0]
HandleEv(w, c, m) == [e |-> "handle", n |-> 0, who |-> w, cls |-> c, msg |-> m, st |-> 0]

(* exceptions are [cls, msg]; a feed reply is what the library call does: *)
(* k = "ok" with data, or k = "raise" with an exception class and, for an  *)
(* HTTPError, the response status code                                     *)
Reply(d) == [k |-> "ok", data |-> d, cls |-> "", status |-> 0]
Fault(c, st) == [k |-> "raise", data |-> <<>>, cls |-> c, status |-> st]

FeedFaults ==
    { Fault("Timeout", 0), Fault("ConnectionError", 0), Fault("HTTPError", 429),
      Fault("HTTPError", 500), Fault("ValueError", 0) }

(* what one call of the callable did: its outcome and the handle_exception *)
(* calls made inside it, in order                                          *)
Did(r, hs) == [ret |-> r, handled |-> hs]

----------------------------------------------------------------------------
(* nvd_search.fetch_cpe_name._fetch_cpe *)

Cpe(name, dep, by) == [cpeName |-> name, deprecated |-> dep, deprecatedBy |-> by]

CpeReplies ==
    { Reply(<<>>),
      Reply(<<Cpe("cpe:live", FALSE, <<>>)>>),
      Reply(<<Cpe("cpe:old", TRUE, <<"cpe:new", "cpe:newer">>)>>),
      Reply(<<Cpe("cpe:old", TRUE, <<>>)>>),
      Reply(<<Cpe("cpe:live", FALSE, <<"cpe:new">>), Cpe("cpe:other", FALSE, <<>>)>>) }

PickCpeNameMut(cpe) == cpe.cpeName

PickCpeName(cpe) ==
    IF cpe.deprecated /\ cpe.deprecatedBy # <<>>
    THEN cpe.deprecatedBy[1]
    ELSE cpe.cpeName

(* handle_exception logs and shows the message; it does not raise, so the *)
(* statement after it runs                                                *)
FetchCpe(fo) ==
    IF fo.k = "ok"
    THEN IF fo.data = <<>>
         THEN \* handle_exception, then cpe_results[0] raises IndexError,
              \* which the except Exception clause handles
              Did(Return(None),
                  << HandleEv("_fetch_cpe", "NVDAPIError", "No CPE found"),
                     HandleEv("_fetch_cpe", "NVDAPIError", "Unexpected error while fetching CPE") >>)
         ELSE Did(Return(Str(PickCpeName(fo.data[1]))), <<>>)
    ELSE IF fo.cls = "Timeout"
    THEN Did(Return(None),
             << HandleEv("_fetch_cpe", "NVDAPIError", "Timeout while fetching CPE") >>)
    ELSE IF fo.cls = "HTTPError"
    THEN IF fo.status = 429
         THEN Did(Return(None),
                  << HandleEv("_fetch_cpe", "NVDAPIError", "Rate limit exceeded"),
                     HandleEv("_fetch_cpe", "NVDAPIError", "HTTP error while fetching CPE") >>)
         ELSE Did(Return(None),
                  << HandleEv("_fetch_cpe", "NVDAPIError", "HTTP error while fetching CPE") >>)
    ELSE Did(Return(None),
             << HandleEv("_fetch_cpe", "NVDAPIError", "Unexpected error while fetching CPE") >>)

----------------------------------------------------------------------------
(* nvd_search.search_nvd._search_cves *)

(* a CVE of the feed; description is descriptions[0].value *)
CveWith(id, score, published, description) ==
    [id |-> id, score |-> score, published |-> published, description |-> description]

Cve(id, score, published) == CveWith(id, score, published, Str("text"))

CveReplies ==
    { Reply(<<>>),
      Reply(<<Cve("CVE-1", 7, 1)>>),
      Reply(<<Cve("CVE-1", 5, 2), Cve("CVE-2", 9, 1), Cve("CVE-3", 5, 3)>>),
      Reply(<<Cve("CVE-1", 9, 1), Cve("CVE-2", 9, 1), Cve("CVE-3", 9, 2)>>),
      Reply(<<Cve("CVE-1", 5, 2), CveWith("CVE-2", 9, 1, None)>>) }

KeyLessMut(a, b) == a.score < b.score

(* key=lambda x: (x.score, x.published): tuple order *)
KeyLess(a, b) ==
    \/ a.score < b.score
    \/ a.score = b.score /\ a.published < b.published

(* sorted(..., reverse=True) is stable: equal keys keep their input order *)
RECURSIVE InsertDesc(_, _)
InsertDesc(x, sorted) ==
    IF sorted = <<>> THEN <<x>>
    ELSE IF KeyLess(Head(sorted), x)
         THEN <<x>> \o sorted
         ELSE <<Head(sorted)>> \o InsertDesc(x, Tail(sorted))

RECURSIVE SortedDesc(_)
SortedDesc(xs) ==
    IF xs = <<>> THEN <<>>
    ELSE InsertDesc(xs[Len(xs)], SortedDesc(SubSeq(xs, 1, Len(xs) - 1)))

TakeMut(xs, n) == SubSeq(xs, 1, IF n + 1 < Len(xs) THEN n + 1 ELSE Len(xs))

(* xs[:n] for n >= 0 *)
Take(xs, n) == SubSeq(xs, 1, IF n < Len(xs) THEN n ELSE Len(xs))

SearchCves(fo, n) ==
    IF fo.k = "ok"
    THEN IF fo.data = <<>>
         THEN Did(Return(List(<<>>)), <<>>)
         ELSE Did(Return(List(Take(SortedDesc(fo.data), n))), <<>>)
    ELSE IF fo.cls = "Timeout"
    THEN Did(Raise("NVDAPIError", "Timeout while searching CVEs"), <<>>)
    ELSE IF fo.cls = "HTTPError"
    THEN IF fo.status = 429
         THEN Did(Raise("NVDAPIError", "Rate limit exceeded"), <<>>)
         ELSE Did(Raise("NVDAPIError", "HTTP error while searching CVEs"), <<>>)
    ELSE Did(Raise("NVDAPIError", "Unexpected error while searching CVEs"), <<>>)

----------------------------------------------------------------------------
(* alientvault_search.fetch_otx_data._search_pulses *)

(* a pulse of the reply's "results": adversary and TLP are sequences of *)
(* characters, malware_families a sequence of values                    *)
PulseWith(name, modified, public, adversary, malware_families, tlp) ==
    [name |-> name, modified |-> modified, public |-> public,
     adversary |-> adversary, malware_families |-> malware_families, TLP |-> tlp]

Pulse(name, modified, public) == PulseWith(name, modified, public, <<>>, <<>>, <<"w">>)

(* the reply's data is empty for a falsy response (None, {}); otherwise it *)
(* holds the list found under "results"                                    *)
PulseReplies ==
    { Reply(<<>>),
      Reply(<< <<>> >>),
      Reply(<< <<Pulse("p1", 2, 1), Pulse("p2", 3, 1), Pulse("p3", 0, 1)>> >>),
      Reply(<< <<Pulse("p1", 1, 0), Pulse("p2", 0, 1)>> >>),
      Reply(<< <<PulseWith("p1", 2, 1, <<>>, <<None>>, <<"w">>), Pulse("p2", 1, 1)>> >>) }

SearchPulsesMut(fo) ==
    IF fo.k = "ok" /\ fo.data # <<>>
    THEN Did(Return(List(fo.data[1])), <<>>)
    ELSE Did(Return(None),
             << HandleEv("_search_pulses", "AlienVaultAPIError", "HTTP error while searching pulses") >>)

SearchPulses(fo) ==
    IF fo.k = "ok"
    THEN IF fo.data = <<>>
         THEN Did(Return(None),
                  << HandleEv("_search_pulses", "AlienVaultAPIError", "No response from OTX API") >>)
         ELSE Did(Return(List(fo.data[1])), <<>>)
    ELSE IF fo.cls = "Timeout"
    THEN Did(Return(None),
             << HandleEv("_search_pulses", "AlienVaultAPIError", "Timeout while searching pulses") >>)
    ELSE IF fo.cls = "HTTPError"
    THEN IF fo.status = 429
         THEN Did(Return(None),
                  << HandleEv("_search_pulses", "AlienVaultAPIError", "Rate limit exceeded") >>)
         ELSE Did(Return(None),
                  << HandleEv("_search_pulses", "AlienVaultAPIError", "HTTP error while searching pulses") >>)
    ELSE Did(Return(None),
             << HandleEv("_search_pulses", "AlienVaultAPIError", "Unexpected error while searching pulses") >>)

----------------------------------------------------------------------------
(* a callable that raises what the library raises (the tests' mock_func) *)
OpReplies == { Reply(<<"success">>) }

OpCall(fo) ==
    IF fo.k = "ok"
    THEN Did(Return(Str(fo.data[1])), <<>>)
    ELSE Did(Raise(fo.cls, "mock"), <<>>)

CallFunc(f, fo) ==
    CASE f = "_fetch_cpe" -> FetchCpe(fo)
      [] f = "_search_cves" -> SearchCves(fo, top_n)
      [] f = "_search_pulses" -> SearchPulses(fo)
      [] OTHER -> OpCall(fo)

Replies(f) ==
    FeedFaults \cup
    ( CASE f = "_fetch_cpe" -> CpeReplies
        [] f = "_search_cves" -> CveReplies
        [] f = "_search_pulses" -> PulseReplies
        [] OTHER -> OpReplies )

----------------------------------------------------------------------------
(* retry_with_backoff of nvd_search, alientvault_search and threat_model *)

ApiError(m) ==
    CASE m = "nvd" -> "NVDAPIError"
      [] m = "otx" -> "AlienVaultAPIError"
      [] OTHER -> "ThreatModelAPIError"

ShouldSleepMut(a, m) == a < m
ShouldSleep(a, m) == a < m - 1

NextDelay(d) == d * 2

(* position after retry_with_backoff has ended *)
AfterRetry == IF op = "retry_with_backoff" THEN "done" ELSE "retried"

(* one iteration of `for attempt in range(max_retries)` *)
RetryAttempt ==
    /\ pc = "retry"
    /\ \E fo \in Replies(func) :
          LET d == CallFunc(func, fo)
              called == log \o << CallEv(attempt + 1, func,
                                         IF fo.k = "ok" THEN "ok" ELSE fo.cls,
                                         IF fo.k = "ok" /\ fo.data = <<>> THEN "empty" ELSE "",
                                         fo.status) >>
                            \o d.handled
          IN  IF d.ret.type = "return"
              THEN /\ rret' = d.ret
                   /\ log' = called
                   /\ pc' = AfterRetry
                   /\ UNCHANGED <<attempt, delay>>
              ELSE IF IsTransient(d.ret.cls)
              THEN IF ShouldSleep(attempt, max_retries)
                   THEN /\ log' = called \o << SleepEv(delay) >>
                        /\ delay' = NextDelay(delay)
                        /\ attempt' = attempt + 1
                        /\ UNCHANGED <<pc, rret>>
                   ELSE \* handle_exception returns; the loop is over and
                        \* the function ends, returning None
                        /\ log' = called \o
                               << HandleEv("retry_with_backoff", ApiError(module),
                                           "Failed after max_retries attempts") >>
                        /\ rret' = Return(None)
                        /\ pc' = AfterRetry
                        /\ UNCHANGED <<attempt, delay>>
              ELSE /\ rret' = d.ret
                   /\ log' = called
                   /\ pc' = AfterRetry
                   /\ UNCHANGED <<attempt, delay>>
    /\ UNCHANGED <<op, module, func, max_retries, initial_delay, cpe_name, top_n,
                   modified_since, result>>
    /\ UNCHANGED <<batchVars, sessionVars, extVars>>

----------------------------------------------------------------------------
(* results of search_nvd and fetch_otx_data: a raised exception, None, or *)
(* a string made of a prefix, a text and the rendered entries              *)
NoResult == [type |-> "none", prefix |-> "", text |-> "", entries |-> <<>>, total |-> 0]
ResNone == [type |-> "None", prefix |-> "", text |-> "", entries |-> <<>>, total |-> 0]
ResRaise(c, m) == [type |-> "raise", prefix |-> c, text |-> m, entries |-> <<>>, total |-> 0]
ResError(m) == [type |-> "str", prefix |-> "Error: ", text |-> m, entries |-> <<>>, total |-> 0]
ResText(t, es) == [type |-> "str", prefix |-> "", text |-> t, entries |-> es, total |-> Len(es)]

(* search_nvd after fetch_cpe_name: fetch_cpe_name returns what *)
(* retry_with_backoff(_fetch_cpe) returned                      *)
NvdAfterCpe ==
    /\ pc = "retried"
    /\ op = "search_nvd"
    /\ func = "_fetch_cpe"
    /\ IF rret.type = "raise"
       THEN /\ result' = IF rret.cls = "NVDAPIError"
                         THEN ResError(rret.msg)
                         ELSE ResRaise(rret.cls, rret.msg)
            /\ pc' = "done"
            /\ UNCHANGED <<func, attempt, delay, cpe_name, max_retries, initial_delay>>
       ELSE /\ cpe_name' = rret.value
            /\ func' = "_search_cves"
            /\ max_retries' = NVDConfig_max_retries
            /\ initial_delay' = NVDConfig_initial_delay
            /\ attempt' = 0
            /\ delay' = NVDConfig_initial_delay
            /\ pc' = "retry"
            /\ UNCHANGED result
    /\ UNCHANGED <<op, module, log, rret, top_n, modified_since>>
    /\ UNCHANGED <<batchVars, sessionVars, extVars>>

(* search_nvd after retry_with_backoff(_search_cves, config): the error *)
(* string, or the rendered entries and their count                      *)
(* an entry is appended unless building it raises, which skips the item: *)
(* description.replace raises AttributeError on None                     *)
CveRenders(item) == item.description.t = "str"

FormatNvd(top_results) ==
    LET vulnerabilities == SelectSeq(top_results, CveRenders)
    IN  IF vulnerabilities = <<>>
        THEN ResText("No vulnerabilities found", <<>>)
        ELSE ResText("entries", vulnerabilities)

NvdAfterCves ==
    /\ pc = "retried"
    /\ op = "search_nvd"
    /\ func = "_search_cves"
    /\ result' = IF rret.type = "raise"
                 THEN IF rret.cls = "NVDAPIError"
                      THEN ResError(rret.msg)
                      ELSE ResRaise(rret.cls, rret.msg)
                 ELSE IF rret.value.t = "list"
                      THEN FormatNvd(rret.value.v)
                      ELSE \* enumerate(None) raises TypeError
                           ResRaise("TypeError", "NoneType is not iterable")
    /\ pc' = "done"
    /\ UNCHANGED <<op, module, func, max_retries, initial_delay, attempt, delay,
                   log, rret, cpe_name, top_n, modified_since>>
    /\ UNCHANGED <<batchVars, sessionVars, extVars>>

----------------------------------------------------------------------------
(* fetch_otx_data after retry_with_backoff(_search_pulses); the callers *)
(* pass no adversary, malware_family or tlp                             *)
KeepPulse(p, since) == p.modified >= since /\ p.public = 1

FilterPulses(ps, since) == SelectSeq(ps, LAMBDA p : KeepPulse(p, since))

RECURSIVE InsertPulseDesc(_, _)
InsertPulseDesc(x, sorted) ==
    IF sorted = <<>> THEN <<x>>
    ELSE IF Head(sorted).modified < x.modified
         THEN <<x>> \o sorted
         ELSE <<Head(sorted)>> \o InsertPulseDesc(x, Tail(sorted))

RECURSIVE SortedPulsesDesc(_)
SortedPulsesDesc(xs) ==
    IF xs = <<>> THEN <<>>
    ELSE InsertPulseDesc(xs[Len(xs)], SortedPulsesDesc(SubSeq(xs, 1, Len(xs) - 1)))

FormatOtxMut(sorted_pulses) == ResText("entries", sorted_pulses)

(* ', '.join raises TypeError on an item that is not a string, which *)
(* skips the pulse                                                   *)
PulseRenders(pulse) ==
    \A i \in DOMAIN pulse.malware_families : pulse.malware_families[i].t = "str"

FormatOtx(sorted_pulses) ==
    LET cti_data == SelectSeq(sorted_pulses, PulseRenders)
    IN  IF cti_data = <<>>
        THEN ResText("No threat intelligence data found", <<>>)
        ELSE ResText("entries", cti_data)

OtxAfterPulses ==
    /\ pc = "retried"
    /\ op = "fetch_otx_data"
    /\ result' = IF rret.type = "raise"
                 THEN \* the outer except clauses: handle_exception, then
                      \* the function ends, returning None
                      ResNone
                 ELSE IF rret.value.t = "None"
                      THEN ResNone
                      ELSE FormatOtx(Take(SortedPulsesDesc(
                               FilterPulses(rret.value.v, modified_since)), top_n))
    /\ log' = IF rret.type = "raise"
              THEN log \o << HandleEv("fetch_otx_data", rret.cls, rret.msg) >>
              ELSE log
    /\ pc' = "done"
    /\ UNCHANGED <<op, module, func, max_retries, initial_delay, attempt, delay,
                   rret, cpe_name, top_n, modified_since>>
    /\ UNCHANGED <<batchVars, sessionVars, extVars>>

----------------------------------------------------------------------------
(* main-batch.py: validate_threat_model, process_batch and the batch loop *)

MaxBatches == 2

retries == 6

PerCategory == 3

stride_categories ==
    <<"Spoofing", "Tampering", "Repudiation", "Information Disclosure",
      "Denial of Service", "Elevation of Privilege">>

(* a threat of a model output; its "Threat Type" is a sequence of tokens,
   " " being white space, and <<>> the empty string of a missing key *)
Threat(tt) == [dict |-> TRUE, tt |-> tt]
NotADict == [dict |-> FALSE, tt |-> <<>>]

RECURSIVE LStrip(_)
LStrip(s) == IF s # <<>> /\ Head(s) = " " THEN LStrip(Tail(s)) ELSE s

RECURSIVE RStrip(_)
RStrip(s) == IF s # <<>> /\ s[Len(s)] = " " THEN RStrip(SubSeq(s, 1, Len(s) - 1)) ELSE s

Strip(s) == RStrip(LStrip(s))

CategoryCount(tm, c) == Cardinality({ i \in DOMAIN tm : Strip(tm[i].tt) = <<c>> })

(* threat.get on an entry that is not a dictionary raises AttributeError *)
ValidateRaises(tm) == \E i \in DOMAIN tm : ~tm[i].dict

validate_threat_model(tm) ==
    \A k \in DOMAIN stride_categories :
        CategoryCount(tm, stride_categories[k]) = PerCategory

(* the threat lists a model output can carry *)
Complete ==
    [i \in 1..(Len(stride_categories) * PerCategory) |->
        Threat(<<stride_categories[((i - 1) \div PerCategory) + 1]>>)]

ThreatLists ==
    { Complete,
      [Complete EXCEPT ![1] = Threat(<<" ", "Spoofing", " ">>)],
      Append(Complete, Threat(<<"Other">>)),
      Append(Complete, Threat(<<"Spoofing">>)),
      [Complete EXCEPT ![1] = Threat(<<"Other">>)],
      SubSeq(Complete, 1, Len(Complete) - 1),
      Append(Complete, NotADict),
      <<>> }

(* what get_threat_model returns: None after a failure, or the parsed JSON *)
GetThreatModelOutputs ==
    { [none |-> TRUE, tm |-> <<>>] } \cup { [none |-> FALSE, tm |-> l] : l \in ThreatLists }

(* what fetch_and_process_mitre_data returns: None, [] or one entry per threat *)
MitreOutcomes == {"None", "empty", "techniques"}

BatchNoRet == [type |-> "none", threats |-> <<>>]
BatchNone == [type |-> "None", threats |-> <<>>]
BatchOutput(tm, m) ==
    [type |-> "dict",
     threats |-> [i \in DOMAIN tm |->
                    [tt |-> tm[i].tt,
                     mitre_technique |-> IF m = "techniques" THEN "first" ELSE "Unknown"]]]

RECURSIVE Pow2(_)
Pow2(n) == IF n = 0 THEN 1 ELSE 2 * Pow2(n - 1)

(* one iteration of the outer loop begins, or the loop is exhausted and the
   function ends without a return statement *)
BatchOuter ==
    /\ b_pc = "outer"
    /\ IF b_outer < retries
       THEN /\ b_attempt' = b_outer
            /\ b_outer' = b_outer + 1
            /\ b_tm' = <<>>
            /\ b_inner' = 0
            /\ b_pc' = "inner"
            /\ UNCHANGED b_ret
       ELSE /\ b_ret' = BatchNone
            /\ b_pc' = "done"
            /\ UNCHANGED <<b_attempt, b_outer, b_tm, b_inner>>
    /\ UNCHANGED <<b_calls, b_sleep, b_handled, batch_iteration, results>>
    /\ UNCHANGED <<feedVars, sessionVars, extVars>>

(* the except clause of the outer loop, entered with attempt = a *)
BatchExcept(a) ==
    IF a < retries - 1
    THEN /\ b_sleep' = Pow2(a)
         /\ b_pc' = "outer"
         /\ UNCHANGED <<b_handled, b_ret>>
    ELSE /\ b_handled' = b_handled + 1
         /\ b_ret' = BatchNone
         /\ b_pc' = "done"
         /\ UNCHANGED b_sleep

(* one iteration of the inner loop, which reuses the variable attempt, or its
   else clause *)
BatchInner ==
    /\ b_pc = "inner"
    /\ IF b_inner < retries
       THEN /\ b_inner' = b_inner + 1
            /\ b_attempt' = b_inner
            /\ b_calls' = b_calls + 1
            /\ \E out \in GetThreatModelOutputs :
                 IF out.none
                 THEN /\ b_tm' = b_tm
                      /\ BatchExcept(b_inner)
                 ELSE /\ b_tm' = out.tm
                      /\ IF ValidateRaises(out.tm)
                         THEN BatchExcept(b_inner)
                         ELSE IF validate_threat_model(out.tm)
                              THEN /\ b_pc' = "build"
                                   /\ UNCHANGED <<b_sleep, b_handled, b_ret>>
                              ELSE /\ b_sleep' = 2
                                   /\ b_pc' = "inner"
                                   /\ UNCHANGED <<b_handled, b_ret>>
       ELSE /\ b_handled' = b_handled + 1
            /\ b_ret' = BatchNone
            /\ b_pc' = "done"
            /\ UNCHANGED <<b_inner, b_attempt, b_calls, b_tm, b_sleep>>
    /\ UNCHANGED <<b_outer, batch_iteration, results>>
    /\ UNCHANGED <<feedVars, sessionVars, extVars>>

(* the technique data is fetched and the batch output is built and returned *)
BatchBuild ==
    /\ b_pc = "build"
    /\ \E m \in MitreOutcomes : b_ret' = BatchOutput(b_tm, m)
    /\ b_pc' = "done"
    /\ UNCHANGED <<b_outer, b_inner, b_attempt, b_tm, b_calls, b_sleep, b_handled,
                   batch_iteration, results>>
    /\ UNCHANGED <<feedVars, sessionVars, extVars>>

(* the batch loop takes the result of the future and writes it when it is
   truthy; the next batch then runs *)
BatchCollect ==
    /\ b_pc = "done"
    /\ results' = IF b_ret.type = "dict" THEN Append(results, b_ret) ELSE results
    /\ IF batch_iteration < MaxBatches
       THEN /\ batch_iteration' = batch_iteration + 1
            /\ b_pc' = "outer"
            /\ b_outer' = 0
            /\ b_inner' = 0
            /\ b_attempt' = 0
            /\ b_tm' = <<>>
            /\ b_calls' = 0
            /\ b_sleep' = 0
            /\ b_handled' = 0
            /\ b_ret' = BatchNoRet
       ELSE /\ b_pc' = "end"
            /\ UNCHANGED <<batch_iteration, b_outer, b_inner, b_attempt, b_tm, b_calls,
                           b_sleep, b_handled, b_ret>>
    /\ UNCHANGED <<feedVars, sessionVars, extVars>>

----------------------------------------------------------------------------
(* main.py and tabs/: the interactive session, one action per button handler *)

MinDescriptionLength == 50

Step3MaxRetries == 3

Absent == [t |-> "absent", v |-> <<>>]
Dict(ks) == [t |-> "dict", v |-> ks]

SessionKeys ==
    {"app_input", "app_details", "session_threat_model_json", "threat_model",
     "threat_model_markdown", "mitre_attack_markdown", "nvd_vulnerabilities_markdown",
     "mitre_data", "attack_tree_code", "session_mitigations_markdown",
     "improvement_suggestions", "dread_assessment", "session_dread_assessment_markdown",
     "session_test_cases_markdown"}

(* bool(x), and key in st.session_state *)
Truthy(x) ==
    CASE x.t = "absent" -> FALSE
      [] x.t = "None" -> FALSE
      [] x.t = "str" -> x.v[1] # ""
      [] x.t = "list" -> Len(x.v) > 0
      [] x.t = "dict" -> Len(x.v) > 0

In(k) == session[k].t # "absent"

(* st.session_state.get(k) *)
Get(k) == IF In(k) THEN session[k] ELSE None

Ended(n, how) == [step |-> n, outcome |-> how]

(* a response of get_threat_model, as step 3 reads it *)
Output(k, tm, sugg) == [kind |-> k, tm |-> tm, sugg |-> sugg]

NoOutput == Output("None", None, None)

(* st.markdown(body): what it does with None depends on the Streamlit
   release, which the repository does not pin *)
MarkdownMayRaise(body) == IF body.t = "None" THEN BOOLEAN ELSE {FALSE}

(* step 1: the description form is submitted *)
validate_description(len) == len >= MinDescriptionLength

DescriptionLengths == {0, MinDescriptionLength - 1, MinDescriptionLength}

Step1Submit ==
    /\ s_pc = "idle"
    /\ \E len \in DescriptionLengths :
         IF validate_description(len)
         THEN /\ session' = [session EXCEPT !["app_input"] = Str("description")]
              /\ completed' = [completed EXCEPT ![1] = TRUE]
              /\ last' = Ended(1, "completed")
         ELSE /\ last' = Ended(1, "rejected")
              /\ UNCHANGED <<session, completed>>
    /\ UNCHANGED <<s_pc, threat_model, retry_count, nvd_found, model_output, llm_calls>>
    /\ UNCHANGED <<feedVars, batchVars, extVars>>

(* step 2: Next is pressed *)
IndustrySectors == {"", "Finance"}

Step2Next ==
    /\ s_pc = "idle"
    /\ completed[1]
    /\ \E industry_sector \in IndustrySectors :
         IF industry_sector = ""
         THEN /\ last' = Ended(2, "rejected")
              /\ UNCHANGED <<session, completed>>
         ELSE /\ session' = [session EXCEPT !["app_details"] = Dict(<<"app_type">>)]
              /\ completed' = [completed EXCEPT ![2] = TRUE]
              /\ last' = Ended(2, "completed")
    /\ UNCHANGED <<s_pc, threat_model, retry_count, nvd_found, model_output, llm_calls>>
    /\ UNCHANGED <<feedVars, batchVars, extVars>>

(* step 3: Generate Threat Model is pressed; the feeds are searched and the
   locals of the generation loop are initialised *)
Step3Click ==
    /\ s_pc = "idle"
    /\ completed[2]
    /\ In("app_input")
    /\ In("app_details")
    /\ nvd_found' \in BOOLEAN
    /\ threat_model' = List(<<>>)
    /\ retry_count' = 0
    /\ model_output' = NoOutput
    /\ llm_calls' = 0
    /\ s_pc' = "llm"
    /\ last' = Ended(3, "running")
    /\ UNCHANGED <<session, completed>>
    /\ UNCHANGED <<feedVars, batchVars, extVars>>

(* the threat lists a response to step 3 can carry: complete, one threat
   short, with an entry that is not a dictionary, empty *)
Step3ThreatLists ==
    { Complete,
      SubSeq(Complete, 1, Len(Complete) - 1),
      Append(Complete, NotADict),
      <<>> }

(* what get_threat_model returns to step 3: None after a failure, or the
   parsed JSON object: {}, or an object whose threat_model and
   improvement_suggestions are a list, something else, or missing *)
Step3Outputs ==
    { NoOutput,
      Output("empty", None, None),
      Output("dict", Str("not a list"), List(<<"suggestion">>)),
      Output("dict", List(Complete), Str("not a list")),
      Output("dict", List(Complete), Absent),
      Output("dict", Absent, List(<<"suggestion">>)),
      Output("dict", Absent, Absent) }
    \cup { Output("dict", List(l), List(<<"suggestion">>)) : l \in Step3ThreatLists }

(* model_output.get(key, []) *)
GetOrEmptyList(x) == IF x.t = "absent" THEN List(<<>>) ELSE x

(* the except clause of the generation loop *)
Step3Except ==
    /\ retry_count' = retry_count + 1
    /\ s_pc' = IF retry_count + 1 = Step3MaxRetries THEN "post" ELSE "llm"

(* step 3: one iteration of the generation loop *)
Step3Attempt ==
    /\ s_pc = "llm"
    /\ llm_calls' = llm_calls + 1
    /\ \E out \in Step3Outputs :
         /\ model_output' = out
         /\ IF out.kind # "dict"
            THEN /\ Step3Except
                 /\ UNCHANGED <<threat_model, session>>
            ELSE /\ threat_model' = GetOrEmptyList(out.tm)
                 /\ IF GetOrEmptyList(out.tm).t # "list" \/ GetOrEmptyList(out.sugg).t # "list"
                    THEN /\ Step3Except
                         /\ UNCHANGED session
                    ELSE IF ValidateRaises(GetOrEmptyList(out.tm).v)
                         THEN /\ Step3Except
                              /\ session' = [session EXCEPT
                                    !["session_threat_model_json"] = GetOrEmptyList(out.tm)]
                         ELSE /\ session' = [session EXCEPT
                                    !["session_threat_model_json"] = GetOrEmptyList(out.tm),
                                    !["threat_model"] = GetOrEmptyList(out.tm),
                                    !["improvement_suggestions"] = GetOrEmptyList(out.sugg)]
                              /\ s_pc' = "post"
                              /\ UNCHANGED retry_count
    /\ UNCHANGED <<completed, nvd_found, last>>
    /\ UNCHANGED <<feedVars, batchVars, extVars>>

(* json_to_markdown: the tables, or its error string *)
json_to_markdown(tm) ==
    IF tm.t = "list" /\ ~ValidateRaises(tm.v)
    THEN Str("| Threat Type | Scenario | Potential Impact | Assumptions |")
    ELSE Str("Error: Unable to format threat model data")

(* handle_mitre_data: None after an exception, [] without STIX data or
   without threats, otherwise one entry per threat *)
MitreData(tm) ==
    { None, List(<<>>) } \cup (IF Truthy(tm) THEN { List(<<"techniques">>) } ELSE {})

(* what get_attack_tree returns: None after a failure, or the diagram *)
AttackTrees == { None, Str("graph TD") }

(* step 3: the rest of the handler, after the generation loop *)
Step3Finish ==
    /\ s_pc = "post"
    /\ \E mitre_data \in MitreData(IF In("threat_model") THEN session["threat_model"] ELSE List(<<>>)),
          attack_tree_code \in AttackTrees :
         session' = [session EXCEPT
            !["threat_model_markdown"] =
                IF Truthy(threat_model) THEN json_to_markdown(threat_model)
                ELSE Str("No threat model generated."),
            !["mitre_data"] = mitre_data,
            !["mitre_attack_markdown"] =
                IF Truthy(mitre_data) THEN Str("### Threat")
                ELSE Str("No MITRE ATT&CK data found."),
            !["attack_tree_code"] = attack_tree_code,
            !["nvd_vulnerabilities_markdown"] =
                IF nvd_found THEN Str("#### technology")
                ELSE Str("No NVD vulnerabilities found.")]
    /\ completed' = [completed EXCEPT ![3] = TRUE]
    /\ s_pc' = "idle"
    /\ last' = Ended(3, "completed")
    \* the locals of the handler end with it
    /\ threat_model' = List(<<>>)
    /\ retry_count' = 0
    /\ nvd_found' = FALSE
    /\ model_output' = NoOutput
    /\ llm_calls' = 0
    /\ UNCHANGED <<feedVars, batchVars, extVars>>

(* validate_session_state of steps 4 and 5 *)
REQUIRED_SESSION_VARS ==
    {"threat_model_markdown", "mitre_attack_markdown", "nvd_vulnerabilities_markdown"}

validate_session_state == \A var \in REQUIRED_SESSION_VARS : In(var) /\ Truthy(session[var])

(* what get_mitigations and get_test_cases return: None after a failure, or
   the text *)
TextOutputs == { None, Str("text") }

(* step 4: Suggest Mitigations is pressed *)
Step4Click ==
    /\ s_pc = "idle"
    /\ completed[3]
    /\ IF In("threat_model") /\ Truthy(session["threat_model"])
       THEN \E mitigations_markdown \in
                  (IF validate_session_state THEN TextOutputs ELSE { Str("") }) :
              /\ session' = [session EXCEPT
                    !["session_mitigations_markdown"] = mitigations_markdown]
              /\ \E raises \in MarkdownMayRaise(mitigations_markdown) :
                   IF raises
                   THEN /\ last' = Ended(4, "raised")
                        /\ UNCHANGED completed
                   ELSE /\ completed' = [completed EXCEPT ![4] = TRUE]
                        /\ last' = Ended(4, "completed")
       ELSE /\ last' = Ended(4, "refused")
            /\ UNCHANGED <<session, completed>>
    /\ UNCHANGED <<s_pc, threat_model, retry_count, nvd_found, model_output, llm_calls>>
    /\ UNCHANGED <<feedVars, batchVars, extVars>>

(* what get_dread_assessment returns: None after a failure, or the parsed
   JSON, whose "Risk Assessment" may be missing or hold a non-dictionary *)
DreadOutputs ==
    { None, Dict(<<>>), Dict(<<"threat">>), Dict(<<"not a dict">>) }

(* dread_json_to_markdown raises on None and on a list, which have no get, and
   on an entry that is not a dictionary *)
DreadMarkdownRaises(dread_assessment) ==
    \/ dread_assessment.t # "dict"
    \/ \E i \in DOMAIN dread_assessment.v : dread_assessment.v[i] = "not a dict"

(* step 5: Generate DREAD Risk Assessment is pressed *)
Step5Click ==
    /\ s_pc = "idle"
    /\ completed[4]
    /\ IF In("threat_model") /\ Truthy(session["threat_model"])
       THEN \E dread_assessment \in
                  (IF validate_session_state THEN DreadOutputs ELSE { List(<<>>) }) :
              IF DreadMarkdownRaises(dread_assessment)
              THEN /\ session' = IF validate_session_state
                                 THEN [session EXCEPT !["dread_assessment"] = dread_assessment]
                                 ELSE session
                   /\ last' = Ended(5, "raised")
                   /\ UNCHANGED completed
              ELSE /\ session' = [session EXCEPT
                        !["dread_assessment"] = dread_assessment,
                        !["session_dread_assessment_markdown"] = Str("| Threat Type |")]
                   /\ completed' = [completed EXCEPT ![5] = TRUE]
                   /\ last' = Ended(5, "completed")
       ELSE /\ last' = Ended(5, "refused")
            /\ UNCHANGED <<session, completed>>
    /\ UNCHANGED <<s_pc, threat_model, retry_count, nvd_found, model_output, llm_calls>>
    /\ UNCHANGED <<feedVars, batchVars, extVars>>

Step6ClickMut ==
    /\ s_pc = "idle"
    /\ completed' = [completed EXCEPT ![6] = TRUE]
    /\ last' = Ended(6, "completed")
    /\ UNCHANGED <<s_pc, session, threat_model, retry_count, nvd_found, model_output,
                   llm_calls>>
    /\ UNCHANGED <<feedVars, batchVars, extVars>>

(* step 6: Generate Test Cases is pressed *)
Step6Click ==
    /\ s_pc = "idle"
    /\ completed[5]
    /\ IF In("threat_model") /\ Truthy(session["threat_model"])
       THEN \E test_cases_markdown \in TextOutputs :
              /\ session' = [session EXCEPT
                    !["session_test_cases_markdown"] = test_cases_markdown]
              /\ \E raises \in MarkdownMayRaise(test_cases_markdown) :
                   IF raises
                   THEN /\ last' = Ended(6, "raised")
                        /\ UNCHANGED completed
                   ELSE /\ completed' = [completed EXCEPT ![6] = TRUE]
                        /\ last' = Ended(6, "completed")
       ELSE /\ last' = Ended(6, "refused")
            /\ UNCHANGED <<session, completed>>
    /\ UNCHANGED <<s_pc, threat_model, retry_count, nvd_found, model_output, llm_calls>>
    /\ UNCHANGED <<feedVars, batchVars, extVars>>

(* step 7: the artifacts the report generation insists on *)
ReportInputs ==
    {"session_test_cases_markdown", "session_dread_assessment_markdown",
     "session_mitigations_markdown", "session_threat_model_json",
     "mitre_attack_markdown", "attack_tree_code", "app_details", "app_input"}

(* step 7: Generate PDF Report is pressed *)
Step7Click ==
    /\ s_pc = "idle"
    /\ completed[6]
    /\ last' = IF \A k \in ReportInputs : Truthy(Get(k))
               THEN Ended(7, "generated")
               ELSE Ended(7, "refused")
    /\ UNCHANGED <<s_pc, session, completed, threat_model, retry_count, nvd_found,
                   model_output, llm_calls>>
    /\ UNCHANGED <<feedVars, batchVars, extVars>>

----------------------------------------------------------------------------
(* MITRE ATT&CK technique selection: mitre_attack.py, as step 3 of the      *)
(* interactive session and process_batch of main-batch.py call it.          *)
(* A text is the sequence of its characters.                                *)
MaxThreats == 2
MAX_TECHNIQUES == 25
NoMatchId == "attack-pattern--00000000-0000-0000-0000-000000000000"

LowerChar(c) == IF c = "A" THEN "a" ELSE IF c = "Z" THEN "z" ELSE c
lower(s) == [i \in DOMAIN s |-> LowerChar(s[i])]

(* Python's k in s for two texts *)
Contains(s, k) == \E i \in 0..(Len(s) - Len(k)) : SubSeq(s, i + 1, i + Len(k)) = k

Text(cs) == [t |-> "str", v |-> cs]
PotentialImpactText ==
    <<" ", "P", "o", "t", "e", "n", "t", "i", "a", "l", " ",
      "i", "m", "p", "a", "c", "t", ":", " ">>

(* a threat of the threat model; kw is its 'MITRE ATT&CK Keywords' entry *)
MitreThreat(id, scenario, impact, kw) ==
    [id |-> id, Scenario |-> scenario, Impact |-> impact, kw |-> kw]

GeneratedThreats ==
    { MitreThreat(1, <<"a">>, <<>>, List(<< <<"a", "b">> >>)),
      MitreThreat(2, <<"a">>, <<"b">>, List(<< <<"q">>, <<"Z">> >>)),
      MitreThreat(3, <<"a">>, <<"b">>, Absent),
      MitreThreat(4, <<>>, <<>>, List(<<>>)),
      MitreThreat(5, <<"q">>, <<>>, List(<< <<"q">> >>)) }

RECURSIVE SeqsUpTo(_, _)
SeqsUpTo(S, n) ==
    IF n = 0 THEN { <<>> }
    ELSE LET shorter == SeqsUpTo(S, n - 1)
         IN  shorter \cup { Append(s, x) : s \in { q \in shorter : Len(q) = n - 1 }, x \in S }

GeneratedLists == SeqsUpTo(GeneratedThreats, MaxThreats)

(* stix_data["objects"] of the catalog file *)
StixObjects ==
    << [type |-> "attack-pattern", id |-> "ap1", name |-> <<"A", "b">>,
        description |-> <<"c", " ", "d">>, external_id |-> "T1001"],
       [type |-> "malware", id |-> "mw1", name |-> <<"q">>,
        description |-> <<"q">>, external_id |-> "S0001"],
       [type |-> "attack-pattern", id |-> "ap2", name |-> <<"z">>,
        description |-> <<>>, external_id |-> ""] >>

(* map_attack_pattern_to_technique followed by .get(id, "N/A") *)
TechniqueOf(id) ==
    IF \E i \in DOMAIN StixObjects :
          /\ StixObjects[i].type = "attack-pattern"
          /\ StixObjects[i].id = id
          /\ StixObjects[i].external_id # ""
    THEN (CHOOSE o \in { StixObjects[i] : i \in DOMAIN StixObjects } :
              o.type = "attack-pattern" /\ o.id = id).external_id
    ELSE "N/A"

(* threat.get("MITRE ATT&CK Keywords", []) *)
KeywordsOf(threat) == IF threat.kw.t = "absent" THEN List(<<>>) ELSE threat.kw

(* for keyword in keywords: the items of a list, the characters of a text *)
KeywordItems(kw) ==
    IF kw.t = "list" THEN kw.v ELSE [i \in DOMAIN kw.v |-> <<kw.v[i]>>]

(* not keywords, for a list or a text *)
NoKeywords(kw) == Len(kw.v) = 0

Matches(obj, kw) ==
    \E i \in DOMAIN KeywordItems(kw) :
        \/ Contains(lower(obj.name), lower(KeywordItems(kw)[i]))
        \/ Contains(lower(obj.description), lower(KeywordItems(kw)[i]))

RECURSIVE Scan(_, _)
(* the catalog scan over the objects from position i on *)
Scan(i, kw) ==
    IF i > Len(StixObjects) THEN <<>>
    ELSE IF StixObjects[i].type = "attack-pattern" /\ Matches(StixObjects[i], kw)
         THEN <<StixObjects[i]>> \o Scan(i + 1, kw)
         ELSE Scan(i + 1, kw)

Min(a, b) == IF a < b THEN a ELSE b
RelevantTechniques(kw) ==
    LET found == Scan(1, kw) IN SubSeq(found, 1, Min(Len(found), MAX_TECHNIQUES))

(* the provider's reply: response.choices[0].message.content, stripped *)
LlmReply(pre, body, post) == [pre |-> pre, body |-> body, post |-> post]
Garbage == [t |-> "garbage", v |-> <<>>]
Number == [t |-> "number", v |-> <<>>]
ReplyBodies ==
    { List(<<>>), List(<<Str("ap1")>>), List(<<Str("ap9")>>), List(<<List(<<>>)>>),
      List(<<Str("ap1"), Str("ap2")>>), Str("ap1"), None, Number, Dict(<<>>), Garbage }
LlmReplies ==
    { LlmReply("", b, "") : b \in ReplyBodies }
    \cup { LlmReply("fence json", List(<<Str("ap1")>>), "fence") }
    \cup { LlmReply("fence", List(<<Str("ap1")>>), "fence"),
           LlmReply("fence json", List(<<Str("ap2")>>), "") }

(* the two fence removals: a leading ```json and a trailing ``` *)
CleanReply(r) ==
    LlmReply(IF r.pre = "fence json" THEN "" ELSE r.pre, r.body,
          IF r.post = "fence" THEN "" ELSE r.post)

JSONDecodeError(r) == r.pre # "" \/ r.post # "" \/ r.body.t = "garbage"

get_relevant_techniquesMut(r) ==
    LET c == CleanReply(r)
        top_1_id == IF JSONDecodeError(c) THEN List(<<>>) ELSE c.body
    IN  IF top_1_id.t = "list"
        THEN IF Len(top_1_id.v) = 0 THEN List(<<Str(NoMatchId)>>) ELSE top_1_id
        ELSE List(<<>>)

get_relevant_techniquesStrict(r) ==
    LET c == CleanReply(r)
    IN  IF JSONDecodeError(c) \/ c.body.t # "list" \/ Len(c.body.v) > 1 THEN List(<<>>)
        ELSE IF Len(c.body.v) = 0 THEN List(<<Str(NoMatchId)>>)
        ELSE c.body

get_relevant_techniques(r) ==
    LET c == CleanReply(r)
        top_1_id == IF JSONDecodeError(c) THEN List(<<>>) ELSE c.body
    IN  IF top_1_id.t = "list"
        THEN IF Len(top_1_id.v) = 1 THEN top_1_id
             ELSE IF Len(top_1_id.v) = 0 THEN List(<<Str(NoMatchId)>>)
             ELSE List(<<>>)
        ELSE List(<<>>)

Raised == [pre |-> "", body |-> [t |-> "raise", v |-> <<>>], post |-> ""]
NoReply == [pre |-> "", body |-> [t |-> "nocall", v |-> <<>>], post |-> ""]

(* what one iteration of the loop over the threats did: the catalog scan,   *)
(* the time.sleep of a random number of seconds, the provider call with its *)
(* reply and the value of get_relevant_techniques, handle_exception         *)
Trace(scan, slept, sel, ret, handled) ==
    [scan |-> scan, slept |-> slept, sel |-> sel, ret |-> ret, handled |-> handled]

Entry(threat, techniques) == [threat |-> threat, mitre_techniques |-> techniques]

NameIn(relevant, id) ==
    IF \E i \in DOMAIN relevant : Str(relevant[i].id) = id
    THEN (CHOOSE o \in { relevant[i] : i \in DOMAIN relevant } : Str(o.id) = id).name
    ELSE <<"Unknown">>

(* step 3 of the session: a threat without keywords gets a text made of its *)
(* scenario and impact                                                      *)
FillKeywords(threat) ==
    IF threat.kw.t = "absent" \/ NoKeywords(threat.kw)
    THEN [threat EXCEPT !.kw = Text(threat.Scenario \o PotentialImpactText \o threat.Impact)]
    ELSE threat

Step3FillKeywords ==
    /\ m_pc = "generated"
    /\ pipeline = "interactive"
    /\ m_threat_model' = [i \in DOMAIN generated |-> FillKeywords(generated[i])]
    /\ m_pc' = "process"
    /\ UNCHANGED <<pipeline, generated, stix_data, app_details, processed_data,
                   m_trace, m_handled>>
    /\ UNCHANGED mitreOthers

(* process_batch hands the validated threat model on as it is *)
BatchPassThreats ==
    /\ m_pc = "generated"
    /\ pipeline = "batch"
    /\ m_threat_model' = generated
    /\ m_pc' = "process"
    /\ UNCHANGED <<pipeline, generated, stix_data, app_details, processed_data,
                   m_trace, m_handled>>
    /\ UNCHANGED mitreOthers

(* process_mitre_attack_data up to its loop *)
ProcessStart ==
    /\ m_pc = "process"
    /\ IF stix_data # "valid"
       THEN m_handled' = m_handled + 1 /\ m_pc' = "done"
       ELSE IF Len(m_threat_model) = 0
       THEN m_handled' = m_handled /\ m_pc' = "done"
       ELSE IF app_details = "none"
       THEN m_handled' = m_handled + 1 /\ m_pc' = "done"
       ELSE m_handled' = m_handled /\ m_pc' = "loop"
    /\ processed_data' = <<>>
    /\ m_trace' = <<>>
    /\ UNCHANGED <<pipeline, generated, stix_data, app_details, m_threat_model>>
    /\ UNCHANGED mitreOthers

(* one iteration of the loop over the threats, and the return after the last *)
ProcessThreat ==
    /\ m_pc = "loop"
    /\ LET threat == m_threat_model[Len(processed_data) + 1]
           keywords == KeywordsOf(threat)
           relevant == RelevantTechniques(keywords)
           Skip(tr) ==
               /\ processed_data' = Append(processed_data, Entry(threat, <<>>))
               /\ m_trace' = Append(m_trace, tr)
               /\ m_handled' = m_handled + tr.handled
       IN  IF NoKeywords(keywords)
           THEN Skip(Trace(FALSE, FALSE, NoReply, None, 0))
           ELSE IF app_details = "partial"
           THEN Skip(Trace(TRUE, FALSE, NoReply, None, 1))
           ELSE \E sel \in LlmReplies \cup {Raised} :
                   IF sel = Raised
                   THEN Skip(Trace(TRUE, TRUE, sel, None, 1))
                   ELSE LET top_1_id == get_relevant_techniques(sel)
                        IN  IF Len(top_1_id.v) = 0 \/ top_1_id.v[1].t # "str"
                            THEN Skip(Trace(TRUE, TRUE, sel, top_1_id, 1))
                            ELSE /\ processed_data' =
                                      Append(processed_data,
                                             Entry(threat,
                                                   << [name |-> NameIn(relevant, top_1_id.v[1]),
                                                       id |-> top_1_id.v[1],
                                                       technique_id |-> TechniqueOf(top_1_id.v[1].v[1])] >>))
                                 /\ m_trace' = Append(m_trace,
                                                      Trace(TRUE, TRUE, sel, top_1_id, 0))
                                 /\ m_handled' = m_handled
    /\ m_pc' = IF Len(processed_data) + 1 = Len(m_threat_model) THEN "done" ELSE "loop"
    /\ UNCHANGED <<pipeline, generated, stix_data, app_details, m_threat_model>>
    /\ UNCHANGED mitreOthers

----------------------------------------------------------------------------
(* The stage generators of steps 4, 5 and 6: generate_mitigations,          *)
(* generate_dread_assessment and generate_test_cases, each with the         *)
(* get_* function it calls: the function of the repository, or the double   *)
(* that the tests put in its place.                                         *)
MAX_RETRIES == 3

Stages == {"mitigations", "dread", "test_cases"}

(* the value a stage starts from *)
StageDefault(st) == IF st = "dread" THEN List(<<>>) ELSE Str("")

(* what the provider makes of a stage's prompt *)
StageGenerated(st) == IF st = "dread" THEN Dict(<<"Risk Assessment">>) ELSE Str("text")

RequiredVars ==
    <<"threat_model_markdown", "mitre_attack_markdown", "nvd_vulnerabilities_markdown">>

IsMissingMut(v) == v.t = "absent"

(* var not in st.session_state or not st.session_state[var] *)
IsMissing(v) == v.t = "absent" \/ ~Truthy(v)

RECURSIVE MissingFrom(_, _)
(* missing_vars, collected from position i of the required names on *)
MissingFrom(i, ss) ==
    IF i > Len(RequiredVars) THEN <<>>
    ELSE IF IsMissing(ss[RequiredVars[i]])
         THEN <<RequiredVars[i]>> \o MissingFrom(i + 1, ss)
         ELSE MissingFrom(i + 1, ss)

(* the stages whose generator validates the session first *)
Validates(st) == st \in {"mitigations", "dread"}

KeepTryingMut(rc) == rc <= MAX_RETRIES

(* while retry_count < MAX_RETRIES *)
KeepTrying(rc) == rc < MAX_RETRIES

(* one call of the get_* function: what the provider did, whether the call  *)
(* raised into the generator, and the value it returned                     *)
Attempt(provider, raised, value) == [provider |-> provider, raised |-> raised, value |-> value]

(* get_mitigations, get_dread_assessment, get_test_cases: every exception   *)
(* of the provider call and of the JSON parsing goes to handle_exception,   *)
(* and the function ends without a return value                             *)
RealAttempts(st) ==
    { Attempt("ok", FALSE, StageGenerated(st)), Attempt("error", FALSE, None) }
    \cup (IF st = "dread" THEN { Attempt("bad json", FALSE, None) } ELSE {})

(* a double with a side effect or a return value *)
DoubleAttempts(st) ==
    { Attempt("none", TRUE, None), Attempt("none", FALSE, StageGenerated(st)) }

(* the start of a generator: the default value, the validation, the prompt *)
StageStart ==
    /\ g_pc = "start"
    /\ g_value' = StageDefault(stage)
    /\ g_retry_count' = 0
    /\ IF Validates(stage) /\ Len(MissingFrom(1, g_session)) > 0
       THEN /\ g_error' = MissingFrom(1, g_session)
            /\ g_ret' = StageDefault(stage)
            /\ g_pc' = "done"
       ELSE /\ g_error' = <<>>
            /\ g_ret' = g_ret
            /\ g_pc' = "loop"
    /\ UNCHANGED <<stage, generator, model_provider, g_session, g_attempts,
                   g_warnings, g_handled, g_inner_handled>>
    /\ UNCHANGED stageOthers

(* one iteration of the retry loop, and the return when the loop ends *)
StageAttempt ==
    /\ g_pc = "loop"
    /\ KeepTrying(g_retry_count)
    /\ IF model_provider # "OpenAI API"
       THEN /\ g_pc' = "done"
            /\ g_ret' = g_value
            /\ UNCHANGED <<g_value, g_retry_count, g_attempts, g_warnings, g_handled,
                           g_inner_handled, g_session>>
       ELSE \E a \in (IF generator = "real" THEN RealAttempts(stage)
                                            ELSE DoubleAttempts(stage)) :
               /\ g_attempts' = Append(g_attempts, a)
               /\ g_inner_handled' = g_inner_handled
                                     + (IF a.provider \in {"error", "bad json"} THEN 1 ELSE 0)
               /\ IF a.raised
                  THEN /\ g_retry_count' = g_retry_count + 1
                       /\ IF g_retry_count + 1 = MAX_RETRIES
                          THEN /\ g_handled' = g_handled + 1
                               /\ g_value' = StageDefault(stage)
                               /\ g_warnings' = g_warnings
                          ELSE /\ g_handled' = g_handled
                               /\ g_value' = g_value
                               /\ g_warnings' = g_warnings + 1
                       /\ g_session' = g_session
                       /\ IF KeepTrying(g_retry_count + 1)
                          THEN g_pc' = "loop" /\ g_ret' = g_ret
                          ELSE g_pc' = "done" /\ g_ret' = g_value'
                  ELSE /\ g_value' = a.value
                       /\ g_session' = IF stage = "dread"
                                       THEN [g_session EXCEPT !["dread_assessment"] = a.value]
                                       ELSE g_session
                       /\ g_pc' = "done"
                       /\ g_ret' = a.value
                       /\ UNCHANGED <<g_retry_count, g_warnings, g_handled>>
    /\ UNCHANGED <<stage, generator, model_provider, g_error>>
    /\ UNCHANGED stageOthers

----------------------------------------------------------------------------
(* The batch loop of main-batch.py: the sessions of one case study on a     *)
(* ThreadPoolExecutor, the main thread collecting their results with        *)
(* as_completed and appending them to the output file.  The source runs 30  *)
(* batches; the model runs the number below.                                *)
batches == 4
workers == 3

Futures == 1..batches

(* the sessions that a worker thread is executing *)
Running == { b \in Futures : w_pc[b] \in {"threat_model", "mitre"} }
Queued == { b \in Futures : w_pc[b] = "queued" }
Finished == { b \in Futures : w_pc[b] = "done" }

FreeWorkerMut(running) == Cardinality(running) <= workers

(* ThreadPoolExecutor(max_workers=workers): a queued call starts when fewer *)
(* than max_workers calls are being executed                                *)
FreeWorker(running) == Cardinality(running) < workers

MayCollectMut(main) == main \in {"wait", "timed_out"}

(* the body of the for loop runs for the futures that as_completed yields   *)
(* before it raises TimeoutError                                            *)
MayCollect(main) == main = "wait"

CloseHandlesMut(hs) == hs

(* leaving the with block of open() closes the file *)
CloseHandles(hs) == {}

(* executor.submit, once for every batch_iteration *)
PoolSubmit ==
    /\ p_main = "submit"
    /\ submitted' = submitted + 1
    /\ w_pc' = [w_pc EXCEPT ![submitted + 1] = "queued"]
    /\ p_main' = IF submitted + 1 = batches THEN "wait" ELSE "submit"
    /\ UNCHANGED <<w_result, starts, yielded, cur, handles, file, first_batch,
                   p_results, timed_out, late>>
    /\ UNCHANGED poolOthers

(* a worker thread takes the oldest queued call and enters process_batch *)
SessionStart ==
    /\ Queued # {}
    /\ FreeWorker(Running)
    /\ LET b == CHOOSE q \in Queued : \A r \in Queued : q <= r
       IN  /\ w_pc' = [w_pc EXCEPT ![b] = "threat_model"]
           /\ starts' = [starts EXCEPT ![b] = @ + 1]
    /\ UNCHANGED <<p_main, submitted, w_result, yielded, cur, handles, file,
                   first_batch, p_results, timed_out, late>>
    /\ UNCHANGED poolOthers

(* process_batch: threat model generation ends; it either goes on to the    *)
(* technique selection or gives up and returns None                         *)
SessionThreatModel ==
    /\ \E b \in Futures :
          /\ w_pc[b] = "threat_model"
          /\ \/ /\ w_pc' = [w_pc EXCEPT ![b] = "mitre"]
                /\ UNCHANGED <<w_result, late>>
             \/ /\ w_pc' = [w_pc EXCEPT ![b] = "done"]
                /\ w_result' = [w_result EXCEPT ![b] = "None"]
                /\ late' = IF timed_out THEN late \cup {b} ELSE late
    /\ UNCHANGED <<p_main, submitted, starts, yielded, cur, handles, file,
                   first_batch, p_results, timed_out>>
    /\ UNCHANGED poolOthers

(* process_batch: technique selection ends and the batch output is returned *)
SessionFinish ==
    /\ \E b \in Futures :
          /\ w_pc[b] = "mitre"
          /\ w_pc' = [w_pc EXCEPT ![b] = "done"]
          /\ w_result' = [w_result EXCEPT ![b] = "record"]
          /\ late' = IF timed_out THEN late \cup {b} ELSE late
    /\ UNCHANGED <<p_main, submitted, starts, yielded, cur, handles, file,
                   first_batch, p_results, timed_out>>
    /\ UNCHANGED poolOthers

(* as_completed yields a finished future; future.result(); open(..., "a")   *)
(* when there is a result                                                   *)
PoolCollect ==
    /\ MayCollect(p_main)
    /\ \E b \in Finished \ yielded :
          /\ yielded' = yielded \cup {b}
          /\ IF w_result[b] = "record"
             THEN /\ cur' = b
                  /\ handles' = handles \cup {b}
                  /\ p_main' = "opened"
             ELSE UNCHANGED <<cur, handles, p_main>>
    /\ UNCHANGED <<submitted, w_pc, w_result, starts, file, first_batch, p_results,
                   timed_out, late>>
    /\ UNCHANGED poolOthers

PoolWriteSeparatorMut ==
    /\ p_main = "opened"
    /\ file' = Append(file, [tok |-> ",", by |-> cur])
    /\ p_main' = "dump"
    /\ UNCHANGED <<submitted, w_pc, w_result, starts, yielded, cur, handles,
                   first_batch, p_results, timed_out, late>>
    /\ UNCHANGED poolOthers

(* if not first_batch: outfile.write(",\n") *)
PoolWriteSeparator ==
    /\ p_main = "opened"
    /\ file' = IF first_batch THEN file ELSE Append(file, [tok |-> ",", by |-> cur])
    /\ p_main' = "dump"
    /\ UNCHANGED <<submitted, w_pc, w_result, starts, yielded, cur, handles,
                   first_batch, p_results, timed_out, late>>
    /\ UNCHANGED poolOthers

(* json.dump, flush, first_batch = False *)
PoolDump ==
    /\ p_main = "dump"
    /\ file' = Append(file, [tok |-> "record", by |-> cur])
    /\ first_batch' = FALSE
    /\ p_main' = "written"
    /\ UNCHANGED <<submitted, w_pc, w_result, starts, yielded, cur, handles,
                   p_results, timed_out, late>>
    /\ UNCHANGED poolOthers

(* the file is closed; results.append(result) *)
PoolClose ==
    /\ p_main = "written"
    /\ handles' = CloseHandles(handles)
    /\ p_results' = Append(p_results, cur)
    /\ cur' = 0
    /\ p_main' = "wait"
    /\ UNCHANGED <<submitted, w_pc, w_result, starts, yielded, file, first_batch,
                   timed_out, late>>
    /\ UNCHANGED poolOthers

(* as_completed raises TimeoutError while futures are outstanding; the      *)
(* handler prints the unfinished ones                                       *)
PoolTimeout ==
    /\ p_main = "wait"
    /\ yielded # Futures
    /\ timed_out' = TRUE
    /\ p_main' = "timed_out"
    /\ UNCHANGED <<submitted, w_pc, w_result, starts, yielded, cur, handles, file,
                   first_batch, p_results, late>>
    /\ UNCHANGED poolOthers

(* the with block of the executor ends: shutdown(wait=True) returns when    *)
(* every submitted call has run; then the closing bracket is appended       *)
PoolExit ==
    /\ \/ p_main = "wait" /\ yielded = Futures
       \/ p_main = "timed_out"
    /\ Finished = Futures
    /\ file' = Append(file, [tok |-> "]", by |-> 0])
    /\ p_main' = "end"
    /\ UNCHANGED <<submitted, w_pc, w_result, starts, yielded, cur, handles,
                   first_batch, p_results, timed_out, late>>
    /\ UNCHANGED poolOthers

----------------------------------------------------------------------------
(* search_nvd and fetch_otx_data once the feed has replied: the records *)
(* they select, and what they render of them                            *)

MaxRecords == 3

(* the CVEs a feed reply can carry, and its lists of them *)
CveUniverse ==
    { Cve("CVE-1", 5, 1), Cve("CVE-2", 9, 1), Cve("CVE-3", 5, 2),
      CveWith("CVE-4", 9, 2, None) }

CveLists == SeqsUpTo(CveUniverse, MaxRecords)

(* the pulses a feed reply can carry, and its lists of them *)
PulseUniverse ==
    { PulseWith("p1", 2, 1, <<"A", "z">>, <<Str("Z")>>, <<"R">>),
      PulseWith("p2", 1, 1, <<"z">>, <<Str("a"), Str("z")>>, <<"r">>),
      PulseWith("p3", 2, 0, <<"A">>, <<>>, <<"w">>),
      PulseWith("p4", 0, 1, <<>>, <<None>>, <<"w">>),
      PulseWith("p5", 1, 1, <<"a", "z">>, <<None, Str("z")>>, <<"w">>) }

PulseLists == SeqsUpTo(PulseUniverse, MaxRecords)

(* the filter arguments of fetch_otx_data *)
Adversaries == { None, Text(<<"a">>), Text(<<"Z">>) }
MalwareFamilies == { None, Text(<<"z">>) }
Tlps == { None, Text(<<"r">>) }

(* any(mf.lower() == malware_family.lower() for mf in families): "yes",  *)
(* "no", or "raise" when an item met before a match has no lower()       *)
RECURSIVE AnyFamily(_, _)
AnyFamily(families, mf) ==
    IF families = <<>> THEN "no"
    ELSE IF Head(families).t # "str" THEN "raise"
    ELSE IF lower(Head(families).v) = lower(mf.v) THEN "yes"
    ELSE AnyFamily(Tail(families), mf)

(* the condition of the comprehension for one pulse, its operands being *)
(* evaluated from left to right: "keep", "drop" or "raise"              *)
PulseConditionMut(pulse, since, adv, mf, level) ==
    IF ~(pulse.modified >= since) THEN "drop"
    ELSE IF ~(adv.t = "None" \/ Contains(lower(pulse.adversary), lower(adv.v)))
    THEN "drop"
    ELSE IF mf.t # "None" /\ AnyFamily(pulse.malware_families, mf) = "raise"
    THEN "raise"
    ELSE IF mf.t # "None" /\ AnyFamily(pulse.malware_families, mf) = "no"
    THEN "drop"
    ELSE IF ~(level.t = "None" \/ lower(pulse.TLP) = lower(level.v)) THEN "drop"
    ELSE "keep"

PulseCondition(pulse, since, adv, mf, level) ==
    IF ~(pulse.modified >= since) THEN "drop"
    ELSE IF ~(pulse.public = 1) THEN "drop"
    ELSE IF ~(adv.t = "None" \/ Contains(lower(pulse.adversary), lower(adv.v)))
    THEN "drop"
    ELSE IF mf.t # "None" /\ AnyFamily(pulse.malware_families, mf) = "raise"
    THEN "raise"
    ELSE IF mf.t # "None" /\ AnyFamily(pulse.malware_families, mf) = "no"
    THEN "drop"
    ELSE IF ~(level.t = "None" \/ lower(pulse.TLP) = lower(level.v)) THEN "drop"
    ELSE "keep"

(* the comprehension raises when the condition of one of its pulses does *)
FilterRaises(ps, since, adv, mf, level) ==
    \E i \in DOMAIN ps : PulseCondition(ps[i], since, adv, mf, level) = "raise"

FilterWithMut(ps, since, adv, mf, level) ==
    LET kept == SelectSeq(ps, LAMBDA p : PulseCondition(p, since, adv, mf, level) = "keep")
    IN  IF kept = <<>> THEN <<>> ELSE Tail(kept)

FilterWith(ps, since, adv, mf, level) ==
    SelectSeq(ps, LAMBDA p : PulseCondition(p, since, adv, mf, level) = "keep")

(* _search_cves on a reply of cve_results *)
SelectCves ==
    /\ q_pc = "start"
    /\ q_op = "search_nvd"
    /\ q_top_results' = IF q_cve_results = <<>>
                        THEN <<>>
                        ELSE Take(SortedDesc(q_cve_results), q_top_n)
    /\ q_pc' = "render"
    /\ UNCHANGED <<q_op, q_top_n, q_cve_results, q_pulses, q_modified_since, q_adversary,
                   q_malware_family, q_tlp, q_filtered_pulses, q_sorted_pulses,
                   q_result, q_handled>>
    /\ UNCHANGED selectOthers

(* search_nvd: the loop over top_results and the result string *)
RenderCves ==
    /\ q_pc = "render"
    /\ q_op = "search_nvd"
    /\ q_result' = FormatNvd(q_top_results)
    /\ q_pc' = "done"
    /\ UNCHANGED <<q_op, q_top_n, q_cve_results, q_top_results, q_pulses,
                   q_modified_since, q_adversary, q_malware_family, q_tlp,
                   q_filtered_pulses, q_sorted_pulses, q_handled>>
    /\ UNCHANGED selectOthers

(* fetch_otx_data: the comprehension over pulses.get("results", []); an *)
(* exception of it reaches the outer except clause, which reports it    *)
(* and lets the function end, returning None                            *)
FilterPulsesStep ==
    /\ q_pc = "start"
    /\ q_op = "fetch_otx_data"
    /\ IF FilterRaises(q_pulses, q_modified_since, q_adversary, q_malware_family, q_tlp)
       THEN /\ q_result' = ResNone
            /\ q_handled' = q_handled + 1
            /\ q_pc' = "done"
            /\ UNCHANGED q_filtered_pulses
       ELSE /\ q_filtered_pulses' = FilterWith(q_pulses, q_modified_since, q_adversary,
                                               q_malware_family, q_tlp)
            /\ q_pc' = "sort"
            /\ UNCHANGED <<q_result, q_handled>>
    /\ UNCHANGED <<q_op, q_top_n, q_cve_results, q_top_results, q_pulses,
                   q_modified_since, q_adversary, q_malware_family, q_tlp,
                   q_sorted_pulses>>
    /\ UNCHANGED selectOthers

(* fetch_otx_data: sorted(filtered_pulses, ...)[:max_results] *)
SortPulses ==
    /\ q_pc = "sort"
    /\ q_op = "fetch_otx_data"
    /\ q_sorted_pulses' = Take(SortedPulsesDesc(q_filtered_pulses), q_top_n)
    /\ q_pc' = "render"
    /\ UNCHANGED <<q_op, q_top_n, q_cve_results, q_top_results, q_pulses,
                   q_modified_since, q_adversary, q_malware_family, q_tlp,
                   q_filtered_pulses, q_result, q_handled>>
    /\ UNCHANGED selectOthers

(* fetch_otx_data: the loop over sorted_pulses and the result string *)
RenderPulses ==
    /\ q_pc = "render"
    /\ q_op = "fetch_otx_data"
    /\ q_result' = FormatOtx(q_sorted_pulses)
    /\ q_pc' = "done"
    /\ UNCHANGED <<q_op, q_top_n, q_cve_results, q_top_results, q_pulses,
                   q_modified_since, q_adversary, q_malware_family, q_tlp,
                   q_filtered_pulses, q_sorted_pulses, q_handled>>
    /\ UNCHANGED selectOthers

----------------------------------------------------------------------------
(* tabs/step3_threat_model.render: the feed lookups made when Generate *)
(* Threat Model is pressed, up to the start of the generation loop     *)

MaxTechnologies == 3

(* what a search_nvd call does: it returns a string (entries, the no-   *)
(* result text or an error string), or raises                           *)
SearchNvdOutcomes ==
    { Return(Str("entries")), Return(Str("No vulnerabilities found")),
      Return(Str("Error: ")), Raise("TypeError", "NoneType is not iterable") }

(* what a fetch_otx_data call does: a string, or None after a failure *)
FetchOtxOutcomes ==
    { Return(Str("entries")), Return(Str("No threat intelligence data found")),
      Return(None), Raise("Exception", "OTX API Error") }

(* except Exception: the classes the clause catches *)
CaughtMut(cls) == cls \in {"NVDAPIError", "AlienVaultAPIError"}
Caught(cls) ==
    cls \in {"Exception", "TypeError", "AttributeError", "NVDAPIError", "AlienVaultAPIError"}

(* one iteration of the loop over selected_technologies.items(), or the *)
(* st.error of the else branch                                          *)
EnrichNvd ==
    /\ e_pc = "nvd"
    /\ IF nvd_api_key /\ selected_technologies # <<>>
       THEN \E o \in SearchNvdOutcomes :
              LET tech == selected_technologies[e_next]
                  last_one == e_next = Len(selected_technologies)
              IN  /\ nvd_calls' = [nvd_calls EXCEPT ![tech] = @ + 1]
                  /\ IF o.type = "raise"
                     THEN IF Caught(o.cls)
                          THEN /\ e_handled' = Append(e_handled, "Error fetching NVD data")
                               /\ e_pc' = IF last_one THEN "otx" ELSE "nvd"
                               /\ e_next' = e_next + 1
                               /\ UNCHANGED nvd_vulnerabilities
                          ELSE /\ e_pc' = "raised"
                               /\ UNCHANGED <<e_handled, e_next, nvd_vulnerabilities>>
                     ELSE /\ nvd_vulnerabilities' =
                                IF Truthy(o.value)
                                THEN nvd_vulnerabilities \cup {tech}
                                ELSE nvd_vulnerabilities
                          /\ e_pc' = IF last_one THEN "otx" ELSE "nvd"
                          /\ e_next' = e_next + 1
                          /\ UNCHANGED e_handled
                  /\ UNCHANGED e_errors
       ELSE /\ e_errors' = Append(e_errors, "NVD API key is missing or no technologies selected")
            /\ e_pc' = "otx"
            /\ UNCHANGED <<nvd_calls, e_handled, e_next, nvd_vulnerabilities>>
    /\ UNCHANGED <<nvd_api_key, alienvault_api_key, selected_technologies,
                   otx_vulnerabilities>>
    /\ UNCHANGED enrichOthers

(* the fetch_otx_data lookup: None.replace raises AttributeError, which *)
(* the except clause handles like an exception of the call             *)
EnrichOtx ==
    /\ e_pc = "otx"
    /\ IF alienvault_api_key
       THEN \E o \in FetchOtxOutcomes :
              LET cls == IF o.type = "raise" THEN o.cls
                         ELSE IF o.value.t = "None" THEN "AttributeError"
                         ELSE ""
              IN  /\ IF cls = ""
                     THEN /\ otx_vulnerabilities' = o.value
                          /\ e_pc' = "prompt"
                          /\ UNCHANGED e_handled
                     ELSE IF Caught(cls)
                     THEN /\ e_handled' = Append(e_handled, "Error fetching OTX data.")
                          /\ e_pc' = "prompt"
                          /\ UNCHANGED otx_vulnerabilities
                     ELSE /\ e_pc' = "raised"
                          /\ UNCHANGED <<e_handled, otx_vulnerabilities>>
                  /\ UNCHANGED e_errors
       ELSE /\ e_errors' = Append(e_errors, "AlienVault API key is missing")
            /\ e_pc' = "prompt"
            /\ UNCHANGED <<e_handled, otx_vulnerabilities>>
    /\ UNCHANGED <<nvd_api_key, alienvault_api_key, selected_technologies, e_next,
                   nvd_calls, nvd_vulnerabilities>>
    /\ UNCHANGED enrichOthers

(* create_threat_model_prompt and the locals of the generation loop *)
StartGeneration ==
    /\ e_pc = "prompt"
    /\ e_pc' = "generate"
    /\ UNCHANGED <<nvd_api_key, alienvault_api_key, selected_technologies, e_next,
                   nvd_calls, nvd_vulnerabilities, otx_vulnerabilities, e_handled,
                   e_errors>>
    /\ UNCHANGED enrichOthers

----------------------------------------------------------------------------
(* nvd_search.fetch_cpe_name: the match string it builds and the name *)
(* _fetch_cpe picks from the reply                                    *)

(* texts are sequences of characters *)
CpePrefixes == { <<"c", "p", "e", ":", "a", ":">>, <<"c", "p", "e", ":", "o", ":">>, <<>> }

Versions == { Absent, Text(<<"1">>), Text(<<"*">>) }

(* the parameter version: str = "*" *)
VersionArgument(version) == IF version.t = "absent" THEN <<"*">> ELSE version.v

(* f"{cpe_prefix}{version}:*" *)
CpeMatchString(prefix, version) == prefix \o VersionArgument(version) \o <<":", "*">>

(* fetch_cpe_name up to the call of nvdlib.searchCPE in _fetch_cpe *)
CpeSearch ==
    /\ c_pc = "start"
    /\ cpe_match_string' = CpeMatchString(cpe_prefix, c_version)
    /\ c_reply' \in CpeReplies \cup FeedFaults
    /\ c_pc' = "searched"
    /\ UNCHANGED <<cpe_prefix, c_version, c_ret>>
    /\ UNCHANGED cpeOthers

(* the rest of _fetch_cpe *)
CpeReturn ==
    /\ c_pc = "searched"
    /\ c_ret' = FetchCpe(c_reply).ret
    /\ c_pc' = "done"
    /\ UNCHANGED <<cpe_prefix, c_version, cpe_match_string, c_reply>>
    /\ UNCHANGED cpeOthers

----------------------------------------------------------------------------
(* dread.dread_json_to_markdown and threat_model.json_to_markdown, called *)
(* on their own                                                           *)

MaxEntries == 3
MaxSubScore == 10

IntValue(n) == [t |-> "int", v |-> <<n>>]

(* an entry of "Risk Assessment": a dictionary with its five sub-scores   *)
(* (Damage Potential, Reproducibility, Exploitability, Affected Users,    *)
(* Discoverability), each absent or a value, or something else            *)
DreadThreat(d, r, e, a, disc) == [dict |-> TRUE, scores |-> <<d, r, e, a, disc>>]
DreadNotADict == [dict |-> FALSE, scores |-> <<>>]

SubScores == { Absent } \cup { IntValue(n) : n \in 0..MaxSubScore }

SmallDreadEntries ==
    { DreadThreat(IntValue(0), IntValue(0), IntValue(0), IntValue(0), IntValue(0)),
      DreadThreat(IntValue(8), IntValue(6), IntValue(5), IntValue(9), IntValue(7)),
      DreadThreat(Absent, Absent, Absent, Absent, Absent),
      DreadThreat(IntValue(1), Str("6"), IntValue(0), IntValue(0), IntValue(0)),
      DreadNotADict }

DreadEntries ==
    { DreadThreat(d, r, e, a, disc) :
        d \in SubScores,
        r \in { Absent, IntValue(0), IntValue(MaxSubScore) },
        e \in { IntValue(1), IntValue(MaxSubScore) },
        a \in { IntValue(0), IntValue(MaxSubScore) },
        disc \in { IntValue(2), IntValue(MaxSubScore) } }

DreadLists ==
    SeqsUpTo(SmallDreadEntries, MaxEntries)
    \cup { <<x>> : x \in DreadEntries }
    \cup { <<x, y>> : x \in SmallDreadEntries, y \in DreadEntries }

(* threat.get(key, 0) *)
SubScore(v) == IF v.t = "absent" THEN IntValue(0) ELSE v

(* the sum of the five values raises TypeError unless they are numbers *)
SumRaises(threat) == \E i \in DOMAIN threat.scores : SubScore(threat.scores[i]).t # "int"

RECURSIVE SumOf(_)
SumOf(vs) == IF vs = <<>> THEN 0 ELSE SubScore(Head(vs)).v[1] + SumOf(Tail(vs))

(* risk_score = (...) / 5: the quotient as a fraction *)
RiskScoreMut(threat) == [num |-> SumOf(threat.scores), den |-> 4]
RiskScore(threat) == [num |-> SumOf(threat.scores), den |-> 5]

(* f"{x:.2f}": the nearest number of hundredths, written as the whole part *)
(* and two decimals                                                        *)
Format2f(x) ==
    LET hundredths == (200 * x.num + x.den) \div (2 * x.den)
    IN  [whole |-> hundredths \div 100,
         decimals |-> <<(hundredths \div 10) % 10, hundredths % 10>>]

DreadRow(threat) == [threat |-> threat, risk |-> Format2f(RiskScore(threat))]

(* what the body of the loop does with one entry: a row, or TypeError *)
EntryRaisesMut(threat) == SumRaises(threat)
EntryRaises(threat) == ~threat.dict \/ SumRaises(threat)

(* the threat lists json_to_markdown is called with *)
MarkdownThreats == { Threat(<<"Spoofing">>), Threat(<<>>), NotADict }

MarkdownLists == SeqsUpTo(MarkdownThreats, MaxEntries)

(* one iteration of the loop of dread_json_to_markdown; the except clause *)
(* logs, calls st.error and raises again                                  *)
DreadLoop ==
    /\ t_pc = "loop"
    /\ t_op = "dread_json_to_markdown"
    /\ Len(t_rows) < Len(t_threats)
    /\ LET threat == t_threats[Len(t_rows) + 1]
       IN  IF EntryRaises(threat)
           THEN /\ t_ret' = Raise("TypeError", "Expected a dictionary")
                /\ t_errors' = t_errors + 1
                /\ t_pc' = "done"
                /\ UNCHANGED t_rows
           ELSE /\ t_rows' = Append(t_rows, DreadRow(threat))
                /\ UNCHANGED <<t_ret, t_errors, t_pc>>
    /\ UNCHANGED <<t_op, t_threats>>
    /\ UNCHANGED transformOthers

(* dread_json_to_markdown returns the table *)
DreadReturn ==
    /\ t_pc = "loop"
    /\ t_op = "dread_json_to_markdown"
    /\ Len(t_rows) = Len(t_threats)
    /\ t_ret' = Return(Str("| Threat Type |"))
    /\ t_pc' = "done"
    /\ UNCHANGED <<t_op, t_threats, t_rows, t_errors>>
    /\ UNCHANGED transformOthers

(* json_to_markdown *)
MarkdownCall ==
    /\ t_pc = "loop"
    /\ t_op = "json_to_markdown"
    /\ t_ret' = Return(json_to_markdown(List(t_threats)))
    /\ t_pc' = "done"
    /\ UNCHANGED <<t_op, t_threats, t_rows, t_errors>>
    /\ UNCHANGED transformOthers

----------------------------------------------------------------------------
(* get_attack_tree, get_mitigations, get_test_cases, get_dread_assessment: *)
(* one call, from its arguments to its return                              *)

Generators == {"get_attack_tree", "get_mitigations", "get_test_cases", "get_dread_assessment"}

ApiKeys == { Str(""), Str("sk-key") }
Prompts == { None, Str(""), Str("prompt") }

(* OpenAI(api_key=api_key): the client, or an exception of the library *)
ClientOutcomes == { "client", "raise" }

(* client.chat.completions.create and the handling of its response *)
RequestOutcomes(f) ==
    { "ok", "error" } \cup (IF f = "get_dread_assessment" THEN { "bad json" } ELSE {})

(* what the function returns from a response *)
GeneratorValue(f) ==
    IF f = "get_dread_assessment" THEN Dict(<<"Risk Assessment">>) ELSE Str("text")

(* not api_key, not prompt *)
Rejects(v) == ~Truthy(v)

(* the two checks before the try block: each calls handle_exception with a *)
(* ValueError, which logs it and shows the message, and goes on            *)
GeneratorValidate ==
    /\ k_pc = "start"
    /\ k_handled' =
          (IF Rejects(k_api_key) THEN <<"OpenAI API key is required">> ELSE <<>>)
          \o (IF Rejects(k_prompt) THEN <<"Prompt is required">> ELSE <<>>)
    /\ k_pc' = "client"
    /\ UNCHANGED <<k_func, k_api_key, k_prompt, k_requests, k_ret>>
    /\ UNCHANGED generatorOthers

(* client = OpenAI(api_key=api_key), inside the try block *)
GeneratorClient ==
    /\ k_pc = "client"
    /\ \E o \in ClientOutcomes :
         IF o = "raise"
         THEN /\ k_handled' = Append(k_handled, "Failed to generate")
              /\ k_ret' = Return(None)
              /\ k_pc' = "done"
         ELSE /\ k_pc' = "request"
              /\ UNCHANGED <<k_handled, k_ret>>
    /\ UNCHANGED <<k_func, k_api_key, k_prompt, k_requests>>
    /\ UNCHANGED generatorOthers

(* client.chat.completions.create(...), the extraction of the content, and *)
(* the return; an exception goes to handle_exception and the function ends *)
GeneratorRequest ==
    /\ k_pc = "request"
    /\ k_requests' = k_requests + 1
    /\ \E o \in RequestOutcomes(k_func) :
         IF o = "ok"
         THEN /\ k_ret' = Return(GeneratorValue(k_func))
              /\ UNCHANGED k_handled
         ELSE /\ k_ret' = Return(None)
              /\ k_handled' = Append(k_handled, IF o = "bad json"
                                                THEN "Failed to parse DREAD assessment JSON"
                                                ELSE "Failed to generate")
    /\ k_pc' = "done"
    /\ UNCHANGED <<k_func, k_api_key, k_prompt>>
    /\ UNCHANGED generatorOthers

----------------------------------------------------------------------------
(* the parts of the state a specification does not exercise *)
FeedIdle ==
    /\ pc = "done"
    /\ op = "none"
    /\ module = "none"
    /\ func = "none"
    /\ max_retries = 0
    /\ initial_delay = 0
    /\ attempt = 0
    /\ delay = 0
    /\ log = <<>>
    /\ rret = NoRet
    /\ cpe_name = None
    /\ top_n = 0
    /\ modified_since = 0
    /\ result = NoResult

BatchIdle ==
    /\ b_pc = "end"
    /\ b_outer = 0
    /\ b_inner = 0
    /\ b_attempt = 0
    /\ b_tm = <<>>
    /\ b_calls = 0
    /\ b_sleep = 0
    /\ b_handled = 0
    /\ b_ret = BatchNoRet
    /\ batch_iteration = 0
    /\ results = <<>>

SessionIdle ==
    /\ s_pc = "off"
    /\ completed = [n \in 1..7 |-> FALSE]
    /\ session = [k \in SessionKeys |-> Absent]
    /\ threat_model = List(<<>>)
    /\ retry_count = 0
    /\ nvd_found = FALSE
    /\ model_output = NoOutput
    /\ llm_calls = 0
    /\ last = Ended(0, "none")

MitreIdle ==
    /\ m_pc = "off"
    /\ pipeline = "none"
    /\ generated = <<>>
    /\ stix_data = "none"
    /\ app_details = "none"
    /\ m_threat_model = <<>>
    /\ processed_data = <<>>
    /\ m_trace = <<>>
    /\ m_handled = 0

StageKeys ==
    {"threat_model_markdown", "mitre_attack_markdown", "nvd_vulnerabilities_markdown",
     "dread_assessment"}

StageIdle ==
    /\ g_pc = "off"
    /\ stage = "none"
    /\ generator = "none"
    /\ model_provider = "none"
    /\ g_session = [k \in StageKeys |-> Absent]
    /\ g_retry_count = 0
    /\ g_value = None
    /\ g_attempts = <<>>
    /\ g_warnings = 0
    /\ g_handled = 0
    /\ g_inner_handled = 0
    /\ g_error = <<>>
    /\ g_ret = None

PoolIdle ==
    /\ p_main = "off"
    /\ submitted = 0
    /\ w_pc = [b \in Futures |-> "unsubmitted"]
    /\ w_result = [b \in Futures |-> "none"]
    /\ starts = [b \in Futures |-> 0]
    /\ yielded = {}
    /\ cur = 0
    /\ handles = {}
    /\ file = <<>>
    /\ first_batch = TRUE
    /\ p_results = <<>>
    /\ timed_out = FALSE
    /\ late = {}

SelectIdle ==
    /\ q_pc = "done"
    /\ q_op = "none"
    /\ q_top_n = 0
    /\ q_cve_results = <<>>
    /\ q_top_results = <<>>
    /\ q_pulses = <<>>
    /\ q_modified_since = 0
    /\ q_adversary = None
    /\ q_malware_family = None
    /\ q_tlp = None
    /\ q_filtered_pulses = <<>>
    /\ q_sorted_pulses = <<>>
    /\ q_result = NoResult
    /\ q_handled = 0

EnrichIdle ==
    /\ e_pc = "generate"
    /\ nvd_api_key = FALSE
    /\ alienvault_api_key = FALSE
    /\ selected_technologies = <<>>
    /\ e_next = 1
    /\ nvd_calls = <<>>
    /\ nvd_vulnerabilities = {}
    /\ otx_vulnerabilities = Str("")
    /\ e_handled = <<>>
    /\ e_errors = <<>>

CpeIdle ==
    /\ c_pc = "done"
    /\ cpe_prefix = <<>>
    /\ c_version = Absent
    /\ cpe_match_string = <<>>
    /\ c_reply = Reply(<<>>)
    /\ c_ret = NoRet

TransformIdle ==
    /\ t_pc = "done"
    /\ t_op = ""
    /\ t_threats = <<>>
    /\ t_rows = <<>>
    /\ t_ret = NoRet
    /\ t_errors = 0

GeneratorIdle ==
    /\ k_pc = "done"
    /\ k_func = ""
    /\ k_api_key = Str("")
    /\ k_prompt = None
    /\ k_handled = <<>>
    /\ k_requests = 0
    /\ k_ret = NoRet

ExtIdle == MitreIdle /\ StageIdle /\ PoolIdle /\ SelectIdle /\ EnrichIdle /\ CpeIdle /\ TransformIdle /\ GeneratorIdle

----------------------------------------------------------------------------
(* retry_with_backoff run on its own, with a callable that raises *)
InitRetry ==
    /\ pc = "retry"
    /\ op = "retry_with_backoff"
    /\ module \in {"nvd", "otx", "tm"}
    /\ func = "op"
    /\ max_retries \in 1..MaxRetriesBound
    /\ initial_delay \in 1..MaxInitialDelay
    /\ attempt = 0
    /\ delay = initial_delay
    /\ log = <<>>
    /\ rret = NoRet
    /\ cpe_name = None
    /\ top_n = 0
    /\ modified_since = 0
    /\ result = NoResult
    /\ BatchIdle
    /\ SessionIdle
    /\ ExtIdle

NextRetry == RetryAttempt

SpecRetry == InitRetry /\ [][NextRetry]_vars

(* search_nvd and fetch_otx_data, as the pipelines call them *)
InitFeed ==
    /\ pc = "retry"
    /\ \/ /\ op = "search_nvd"
          /\ module = "nvd"
          /\ func = "_fetch_cpe"
          /\ max_retries = NVDConfig_max_retries
          /\ initial_delay = NVDConfig_initial_delay
       \/ /\ op = "fetch_otx_data"
          /\ module = "otx"
          /\ func = "_search_pulses"
          /\ max_retries = DefaultMaxRetries
          /\ initial_delay = DefaultInitialDelay
    /\ attempt = 0
    /\ delay = initial_delay
    /\ log = <<>>
    /\ rret = NoRet
    /\ cpe_name = None
    /\ top_n \in 0..MaxTopN
    /\ modified_since \in 0..MaxTime
    /\ result = NoResult
    /\ BatchIdle
    /\ SessionIdle
    /\ ExtIdle

NextFeed ==
    \/ RetryAttempt
    \/ NvdAfterCpe
    \/ NvdAfterCves
    \/ OtxAfterPulses

SpecFeed == InitFeed /\ [][NextFeed]_vars

(* process_batch under the batch loop of main-batch.py *)
InitBatch ==
    /\ FeedIdle
    /\ SessionIdle
    /\ ExtIdle
    /\ b_pc = "outer"
    /\ b_outer = 0
    /\ b_inner = 0
    /\ b_attempt = 0
    /\ b_tm = <<>>
    /\ b_calls = 0
    /\ b_sleep = 0
    /\ b_handled = 0
    /\ b_ret = BatchNoRet
    /\ batch_iteration = 1
    /\ results = <<>>

NextBatch ==
    \/ BatchOuter
    \/ BatchInner
    \/ BatchBuild
    \/ BatchCollect

SpecBatch == InitBatch /\ [][NextBatch]_vars

(* the interactive session of main.py *)
InitSession ==
    /\ FeedIdle
    /\ BatchIdle
    /\ ExtIdle
    /\ s_pc = "idle"
    /\ completed = [n \in 1..7 |-> FALSE]
    /\ session = [k \in SessionKeys |-> Absent]
    /\ threat_model = List(<<>>)
    /\ retry_count = 0
    /\ nvd_found = FALSE
    /\ model_output = NoOutput
    /\ llm_calls = 0
    /\ last = Ended(0, "none")

NextSession ==
    \/ Step1Submit
    \/ Step2Next
    \/ Step3Click
    \/ Step3Attempt
    \/ Step3Finish
    \/ Step4Click
    \/ Step5Click
    \/ Step6Click
    \/ Step7Click

SpecSession == InitSession /\ [][NextSession]_vars

(* technique selection for a generated threat model, in either pipeline *)
InitMitre ==
    /\ FeedIdle
    /\ BatchIdle
    /\ SessionIdle
    /\ StageIdle
    /\ PoolIdle
    /\ SelectIdle
    /\ EnrichIdle
    /\ CpeIdle
    /\ TransformIdle
    /\ GeneratorIdle
    /\ m_pc = "generated"
    /\ pipeline \in {"interactive", "batch"}
    /\ generated \in GeneratedLists
    /\ stix_data \in {"valid", "no objects"} \cup (IF pipeline = "interactive" THEN {"none"} ELSE {})
    /\ app_details \in {"full", "partial"}
    /\ m_threat_model = <<>>
    /\ processed_data = <<>>
    /\ m_trace = <<>>
    /\ m_handled = 0

NextMitre ==
    \/ Step3FillKeywords
    \/ BatchPassThreats
    \/ ProcessStart
    \/ ProcessThreat

SpecMitre == InitMitre /\ [][NextMitre]_vars

(* one run of a stage generator on a session that steps 1 to 3 left behind *)
InitStage ==
    /\ FeedIdle
    /\ BatchIdle
    /\ SessionIdle
    /\ MitreIdle
    /\ PoolIdle
    /\ SelectIdle
    /\ EnrichIdle
    /\ CpeIdle
    /\ TransformIdle
    /\ GeneratorIdle
    /\ g_pc = "start"
    /\ stage \in Stages
    /\ generator \in {"real", "double"}
    /\ model_provider \in {"OpenAI API", "other"}
    /\ g_session \in { ss \in [StageKeys -> {Absent, Str(""), Str("markdown")}] :
                          ss["dread_assessment"] = Absent }
    /\ g_retry_count = 0
    /\ g_value = None
    /\ g_attempts = <<>>
    /\ g_warnings = 0
    /\ g_handled = 0
    /\ g_inner_handled = 0
    /\ g_error = <<>>
    /\ g_ret = None

NextStage ==
    \/ StageStart
    \/ StageAttempt

SpecStage == InitStage /\ [][NextStage]_vars

(* the batch loop of one case study, after the opening bracket was written  *)
InitPool ==
    /\ FeedIdle
    /\ BatchIdle
    /\ SessionIdle
    /\ MitreIdle
    /\ StageIdle
    /\ SelectIdle
    /\ EnrichIdle
    /\ CpeIdle
    /\ TransformIdle
    /\ GeneratorIdle
    /\ p_main = "submit"
    /\ submitted = 0
    /\ w_pc = [b \in Futures |-> "unsubmitted"]
    /\ w_result = [b \in Futures |-> "none"]
    /\ starts = [b \in Futures |-> 0]
    /\ yielded = {}
    /\ cur = 0
    /\ handles = {}
    /\ file = <<[tok |-> "[", by |-> 0]>>
    /\ first_batch = TRUE
    /\ p_results = <<>>
    /\ timed_out = FALSE
    /\ late = {}

NextPool ==
    \/ PoolSubmit
    \/ SessionStart
    \/ SessionThreatModel
    \/ SessionFinish
    \/ PoolCollect
    \/ PoolWriteSeparator
    \/ PoolDump
    \/ PoolClose
    \/ PoolTimeout
    \/ PoolExit

SpecPool == InitPool /\ [][NextPool]_vars

(* what search_nvd and fetch_otx_data select from a reply of the feed *)
InitSelect ==
    /\ FeedIdle
    /\ BatchIdle
    /\ SessionIdle
    /\ MitreIdle
    /\ StageIdle
    /\ PoolIdle
    /\ EnrichIdle
    /\ CpeIdle
    /\ TransformIdle
    /\ GeneratorIdle
    /\ q_pc = "start"
    /\ q_top_n \in 0..MaxTopN
    /\ \/ /\ q_op = "search_nvd"
          /\ q_cve_results \in CveLists
          /\ q_pulses = <<>>
          /\ q_modified_since = 0
          /\ q_adversary = None
          /\ q_malware_family = None
          /\ q_tlp = None
       \/ /\ q_op = "fetch_otx_data"
          /\ q_cve_results = <<>>
          /\ q_pulses \in PulseLists
          /\ q_modified_since \in 0..MaxTime
          /\ q_adversary \in Adversaries
          /\ q_malware_family \in MalwareFamilies
          /\ q_tlp \in Tlps
    /\ q_top_results = <<>>
    /\ q_filtered_pulses = <<>>
    /\ q_sorted_pulses = <<>>
    /\ q_result = NoResult
    /\ q_handled = 0

NextSelect ==
    \/ SelectCves
    \/ RenderCves
    \/ FilterPulsesStep
    \/ SortPulses
    \/ RenderPulses

SpecSelect == InitSelect /\ [][NextSelect]_vars

(* the feed lookups of step 3 *)
InitEnrich ==
    /\ FeedIdle
    /\ BatchIdle
    /\ SessionIdle
    /\ MitreIdle
    /\ StageIdle
    /\ PoolIdle
    /\ SelectIdle
    /\ CpeIdle
    /\ TransformIdle
    /\ GeneratorIdle
    /\ e_pc = "nvd"
    /\ nvd_api_key \in BOOLEAN
    /\ alienvault_api_key \in BOOLEAN
    /\ \E n \in 0..MaxTechnologies :
          /\ selected_technologies = [i \in 1..n |-> i]
          /\ nvd_calls = [i \in 1..n |-> 0]
    /\ e_next = 1
    /\ nvd_vulnerabilities = {}
    /\ otx_vulnerabilities = Str("")
    /\ e_handled = <<>>
    /\ e_errors = <<>>

NextEnrich ==
    \/ EnrichNvd
    \/ EnrichOtx
    \/ StartGeneration

SpecEnrich == InitEnrich /\ [][NextEnrich]_vars

(* fetch_cpe_name *)
InitCpe ==
    /\ FeedIdle
    /\ BatchIdle
    /\ SessionIdle
    /\ MitreIdle
    /\ StageIdle
    /\ PoolIdle
    /\ SelectIdle
    /\ EnrichIdle
    /\ TransformIdle
    /\ GeneratorIdle
    /\ c_pc = "start"
    /\ cpe_prefix \in CpePrefixes
    /\ c_version \in Versions
    /\ cpe_match_string = <<>>
    /\ c_reply = Reply(<<>>)
    /\ c_ret = NoRet

NextCpe ==
    \/ CpeSearch
    \/ CpeReturn

SpecCpe == InitCpe /\ [][NextCpe]_vars

(* dread_json_to_markdown and json_to_markdown *)
InitTransform ==
    /\ FeedIdle
    /\ BatchIdle
    /\ SessionIdle
    /\ MitreIdle
    /\ StageIdle
    /\ PoolIdle
    /\ SelectIdle
    /\ EnrichIdle
    /\ CpeIdle
    /\ GeneratorIdle
    /\ t_pc = "loop"
    /\ \/ /\ t_op = "dread_json_to_markdown"
          /\ t_threats \in DreadLists
       \/ /\ t_op = "json_to_markdown"
          /\ t_threats \in MarkdownLists
    /\ t_rows = <<>>
    /\ t_ret = NoRet
    /\ t_errors = 0

NextTransform ==
    \/ DreadLoop
    \/ DreadReturn
    \/ MarkdownCall

SpecTransform == InitTransform /\ [][NextTransform]_vars

(* one call of a get_* function *)
InitGenerator ==
    /\ FeedIdle
    /\ BatchIdle
    /\ SessionIdle
    /\ MitreIdle
    /\ StageIdle
    /\ PoolIdle
    /\ SelectIdle
    /\ EnrichIdle
    /\ CpeIdle
    /\ TransformIdle
    /\ k_pc = "start"
    /\ k_func \in Generators
    /\ k_api_key \in ApiKeys
    /\ k_prompt \in Prompts
    /\ k_handled = <<>>
    /\ k_requests = 0
    /\ k_ret = NoRet

NextGenerator ==
    \/ GeneratorValidate
    \/ GeneratorClient
    \/ GeneratorRequest

SpecGenerator == InitGenerator /\ [][NextGenerator]_vars

----------------------------------------------------------------------------
(* the events of the log *)
CallIdx == { i \in DOMAIN log : log[i].e = "call" }
SleepIdx == { i \in DOMAIN log : log[i].e = "sleep" }
RetryHandleIdx == { i \in DOMAIN log : log[i].e = "handle" /\ log[i].who = "retry_with_backoff" }
TransientCallIdx == { i \in CallIdx : log[i].cls \in {"RequestException", "Timeout", "ConnectionError", "HTTPError"} }
OtherRaiseIdx == { i \in CallIdx : log[i].cls \notin {"ok", "RequestException", "Timeout", "ConnectionError", "HTTPError"} }

(* a feed call that failed with a timeout, a connection error or HTTP 429 *)
TransientFeedFailure(ev) ==
    /\ ev.e = "call"
    /\ \/ ev.cls \in {"Timeout", "ConnectionError"}
       \/ ev.cls = "HTTPError" /\ ev.st = 429

FeedFailure(ev) == ev.e = "call" /\ ev.cls # "ok"

----------------------------------------------------------------------------
(* C1: a threat model that validate_threat_model accepts has exactly 18
   entries, 3 for each of the six STRIDE categories, so every batch record
   that is written carries exactly 18 threats. *)
C1_AcceptedModelHas18Threats ==
    /\ b_pc = "build" =>
         /\ validate_threat_model(b_tm)
         /\ Len(b_tm) = Len(stride_categories) * PerCategory
    /\ \A i \in DOMAIN results :
         Len(results[i].threats) = Len(stride_categories) * PerCategory

(* C2: step 3 never stores as the session's threat_model a generated threat
   model that does not have exactly 3 threats for each STRIDE category. *)
C2_SessionThreatModelIsStrideComplete ==
    In("threat_model") => validate_threat_model(session["threat_model"].v)

(* C3: a feed call of search_nvd / fetch_cpe_name / fetch_otx_data that    *)
(* fails with a timeout, a connection error or HTTP 429 is made again, up  *)
(* to the maximum attempt count, before the operation reports a failure:   *)
(* once the operation has ended, every such failed call below the maximum  *)
(* attempt count was followed by a sleep and by the next attempt of the    *)
(* same call.                                                              *)
C3_TransientFeedFailureRetried ==
    pc = "done" =>
        \A i \in DOMAIN log :
            (TransientFeedFailure(log[i]) /\ log[i].n < max_retries) =>
                /\ \E j \in DOMAIN log : j > i /\ log[j].e = "sleep"
                /\ \E j \in DOMAIN log :
                       /\ j > i
                       /\ log[j].e = "call"
                       /\ log[j].who = log[i].who
                       /\ log[j].n = log[i].n + 1

(* C4: retry_with_backoff calls the operation at most max_retries times,   *)
(* numbered 1, 2, ...; a success is the last event and its value is        *)
(* returned; the k-th transient failure with k < max_retries is followed   *)
(* by one sleep of initial_delay * 2^(k-1) and nothing else before the     *)
(* next attempt; the max_retries-th failure is followed by no sleep but by *)
(* the one handle_exception call, which ends the run.                      *)
C4_RetrySchedule ==
    /\ Cardinality(CallIdx) <= max_retries
    /\ \A i \in CallIdx : log[i].n = Cardinality({ j \in CallIdx : j <= i })
    /\ Cardinality(RetryHandleIdx) <= 1
    /\ \A i \in SleepIdx : i > 1 /\ (i - 1) \in TransientCallIdx /\ log[i - 1].n < max_retries
    /\ \A i \in RetryHandleIdx : i > 1 /\ (i - 1) \in TransientCallIdx /\ log[i - 1].n = max_retries
    /\ \A i \in CallIdx :
          /\ log[i].cls = "ok" =>
                /\ i = Len(log)
                /\ pc = "done"
                /\ rret = Return(Str("success"))
          /\ (i \in TransientCallIdx /\ log[i].n < max_retries) =>
                /\ i + 1 \in SleepIdx
                /\ log[i + 1].n = initial_delay * 2^(log[i].n - 1)
                /\ i + 2 <= Len(log) => (i + 2) \in CallIdx
                /\ i + 1 = Len(log) => pc = "retry"
          /\ (i \in TransientCallIdx /\ log[i].n = max_retries) =>
                /\ i + 1 = Len(log)
                /\ i + 1 \in RetryHandleIdx
                /\ pc = "done"

C4_Witness ==
    /\ pc = "done"
    /\ max_retries = 3
    /\ Cardinality(SleepIdx) = 2
    /\ Cardinality(RetryHandleIdx) = 1

(* C5: an exception of the operation that is not a RequestException is     *)
(* never retried: the raising call is the last event (no sleep, no         *)
(* handle_exception, no further call), the operation was called once more  *)
(* than it failed transiently before, and the caller gets that exception.  *)
C5_NonTransientNotRetried ==
    \A i \in OtherRaiseIdx :
        /\ i = Len(log)
        /\ pc = "done"
        /\ rret = Raise(log[i].cls, "mock")
        /\ Cardinality(CallIdx) = Cardinality(TransientCallIdx) + 1
        /\ Cardinality(SleepIdx) = Cardinality(TransientCallIdx)
        /\ RetryHandleIdx = {}

C5_Witness ==
    /\ pc = "done"
    /\ rret.type = "raise"
    /\ rret.cls = "ValueError"
    /\ Cardinality(TransientCallIdx) = 1
    /\ Cardinality(CallIdx) = 2

(* C6: a generation stage that has run to its end, whatever its provider call
   returned, is completed, so that the gate of the next stage is open; a
   failed stage is never the end of the session. *)
C6_StageFailureIsNotFatal ==
    (s_pc = "idle" /\ last.step \in 3..6) => completed[last.step]

(* C7: whenever steps 1 to 6 are completed and the report is requested, the
   report is generated; step 7 never refuses. *)
C7_ReportAlwaysGenerated ==
    (last.step = 7 /\ \A n \in 1..6 : completed[n]) => last.outcome = "generated"

(* C8: search_nvd never raises; whenever the platform-identifier search or *)
(* the CVE search failed it returns a string that starts with "Error: ",   *)
(* and the string for an HTTP 429 differs from the one for other failures. *)
C8_SearchNvdReportsErrorString ==
    (pc = "done" /\ op = "search_nvd") =>
        /\ result.type = "str"
        /\ (\E i \in DOMAIN log : FeedFailure(log[i])) => result.prefix = "Error: "
        /\ \A i \in DOMAIN log :
              ( /\ FeedFailure(log[i])
                /\ \A j \in DOMAIN log : FeedFailure(log[j]) => j <= i
                /\ result.prefix = "Error: " ) =>
                  ((log[i].cls = "HTTPError" /\ log[i].st = 429)
                      <=> result.text = "Rate limit exceeded")

(* C9: when the platform-identifier search finds no match, fetch_cpe_name  *)
(* ends by raising NVDAPIError, and search_nvd never goes on to the CVE    *)
(* search with a value it returned.                                        *)
C9_NoMatchRaises ==
    (\E i \in DOMAIN log : log[i].who = "_fetch_cpe" /\ log[i].msg = "empty") =>
        /\ func = "_fetch_cpe"
        /\ rret.type = "raise"
        /\ rret.cls = "NVDAPIError"
        /\ \A j \in DOMAIN log : log[j].who # "_search_cves"

(* C10: when every one of the max_retries attempts fails with a transient  *)
(* error, retry_with_backoff of nvd_search and of threat_model ends by     *)
(* raising NVDAPIError / ThreatModelAPIError, never by returning.          *)
C10_ExhaustedRetriesRaise ==
    ( /\ pc = "done"
      /\ op = "retry_with_backoff"
      /\ module \in {"nvd", "tm"}
      /\ Cardinality(TransientCallIdx) = max_retries ) =>
        /\ rret.type = "raise"
        /\ rret.cls = ApiError(module)

(* C11: per click of Generate Threat Model the provider is called at most 3
   times and never again after the first accepted response, and a response
   is accepted (the generation loop is left by its break, and the response
   stored as the session's threat_model and improvement_suggestions) only
   if it is an object that contains a threat_model list and an
   improvement_suggestions list whose threats are all dictionaries. *)
C11_AcceptedOnlyWithBothLists ==
    /\ llm_calls <= Step3MaxRetries
    /\ (s_pc = "post" /\ retry_count < Step3MaxRetries) =>
          /\ llm_calls = retry_count + 1
          /\ model_output.kind = "dict"
          /\ model_output.tm.t = "list"
          /\ model_output.sugg.t = "list"
          /\ ~ValidateRaises(model_output.tm.v)
          /\ session["threat_model"] = model_output.tm
          /\ session["improvement_suggestions"] = model_output.sugg
    /\ (s_pc = "post" /\ retry_count = Step3MaxRetries) => llm_calls = Step3MaxRetries

----------------------------------------------------------------------------
(* the loop iterations of process_mitre_attack_data whose provider reply    *)
(* was JSON text as it stands                                               *)
JsonReplyIdx ==
    { i \in DOMAIN m_trace :
        /\ m_trace[i].sel.pre = ""
        /\ m_trace[i].sel.post = ""
        /\ m_trace[i].sel.body.t \in {"list", "str", "None", "number", "dict"} }

(* C12: get_relevant_techniques returns a JSON array of exactly one         *)
(* identifier as it is, turns an empty JSON array into the no-match         *)
(* sentinel, and turns an array of two or more entries and every JSON value *)
(* that is not an array into the empty list, for which                      *)
(* process_mitre_attack_data records no technique for the threat.           *)
C12_SelectionMapping ==
    \A i \in JsonReplyIdx :
        LET body == m_trace[i].sel.body
            ret == m_trace[i].ret
        IN  /\ (body.t = "list" /\ Len(body.v) = 1) => ret = body
            /\ (body.t = "list" /\ Len(body.v) = 0) => ret = List(<<Str(NoMatchId)>>)
            /\ (body.t # "list" \/ Len(body.v) >= 2) =>
                  /\ ret = List(<<>>)
                  /\ processed_data[i].mitre_techniques = <<>>

C12_Witness ==
    /\ m_pc = "done"
    /\ \E i \in JsonReplyIdx : m_trace[i].sel.body.t = "list" /\ Len(m_trace[i].sel.body.v) >= 2
    /\ \E i \in JsonReplyIdx : m_trace[i].sel.body.t = "str"

(* the selection of loop iteration i failed: the provider call raised       *)
FailedSelection(tr) == tr.sel = Raised

(* the reply is text that is not JSON, before or after the fence removal,   *)
(* or JSON that is not an array of at most one entry                        *)
UnparsableSelection(tr) ==
    /\ tr.sel.body.t \notin {"raise", "nocall"}
    /\ \/ tr.sel.body.t # "list"
       \/ tr.sel.pre \notin {"", "fence json"}
       \/ Len(tr.sel.body.v) >= 2

(* the reply is a JSON array of one identifier, fenced or not *)
SelectedId(tr) ==
    /\ tr.sel.body.t = "list"
    /\ tr.sel.pre \in {"", "fence json"}
    /\ tr.sel.post \in {"", "fence"}
    /\ Len(tr.sel.body.v) = 1
    /\ tr.sel.body.v[1].t = "str"

(* C13: for a non-empty threat list, a valid catalog and application        *)
(* details, process_mitre_attack_data returns one entry per threat, in      *)
(* order, each with its threat unchanged and at most one technique; a       *)
(* failed or unparsable selection leaves its threat with an empty technique *)
(* list, and a threat whose selection succeeded keeps the selected          *)
(* technique whatever happened to the other threats.                        *)
C13_OneEntryPerThreat ==
    (/\ m_pc \in {"loop", "done"}
     /\ stix_data = "valid"
     /\ app_details = "full"
     /\ Len(m_threat_model) > 0) =>
        /\ m_pc = "done" => Len(processed_data) = Len(m_threat_model)
        /\ \A i \in DOMAIN processed_data :
              /\ processed_data[i].threat = m_threat_model[i]
              /\ Len(processed_data[i].mitre_techniques) <= 1
              /\ (FailedSelection(m_trace[i]) \/ UnparsableSelection(m_trace[i])) =>
                    processed_data[i].mitre_techniques = <<>>
              /\ SelectedId(m_trace[i]) =>
                    /\ Len(processed_data[i].mitre_techniques) = 1
                    /\ processed_data[i].mitre_techniques[1].id = m_trace[i].sel.body.v[1]

(* C14: in the interactive and in the batch pipeline, a threat generated    *)
(* without keywords (the entry missing or empty) ends with no candidates    *)
(* and no techniques: no catalog scan, no rate-limit sleep and no provider  *)
(* call are made for it.                                                    *)
C14_NoKeywordsShortCircuit ==
    \A i \in DOMAIN processed_data :
        (generated[i].kw.t = "absent" \/ NoKeywords(generated[i].kw)) =>
            /\ ~m_trace[i].scan
            /\ ~m_trace[i].slept
            /\ m_trace[i].sel = NoReply
            /\ processed_data[i].mitre_techniques = <<>>

----------------------------------------------------------------------------
(* the runs of a stage generator that passed the validation and reached the *)
(* provider branch                                                          *)
StageRan == g_pc = "done" /\ g_error = <<>> /\ model_provider = "OpenAI API"

EveryAttemptRaised == \A i \in DOMAIN g_attempts : g_attempts[i].raised

EmptyDefault == IF stage = "dread" THEN List(<<>>) ELSE Str("")

(* C15: in the three stage generators, when the call of the get_* function  *)
(* raises on every attempt it is made exactly MAX_RETRIES (3) times, the    *)
(* retry warning is shown exactly 2 times, handle_exception is called       *)
(* exactly once, after the last attempt, and the empty default is returned; *)
(* an attempt that does not raise is the last one.                          *)
C15_RaisingGeneratorRetried ==
    /\ Len(g_attempts) <= MAX_RETRIES
    /\ (StageRan /\ EveryAttemptRaised) =>
          /\ Len(g_attempts) = MAX_RETRIES
          /\ g_warnings = MAX_RETRIES - 1
          /\ g_handled = 1
          /\ g_ret = EmptyDefault
    /\ g_handled > 0 => Len(g_attempts) = MAX_RETRIES /\ g_handled = 1
    /\ \A i \in DOMAIN g_attempts : ~g_attempts[i].raised => i = Len(g_attempts) /\ g_pc = "done"

C15_Witness ==
    /\ StageRan
    /\ stage = "dread"
    /\ Len(g_attempts) = MAX_RETRIES
    /\ EveryAttemptRaised
    /\ g_handled = 1

(* C16: when the provider call made by get_mitigations,                     *)
(* get_dread_assessment or get_test_cases fails, the stage generates again, *)
(* up to 3 attempts in total, and returns its empty default once they are   *)
(* exhausted.                                                               *)
C16_ProviderFailureRetried ==
    (generator = "real" /\ StageRan) =>
        /\ \A i \in DOMAIN g_attempts :
              (g_attempts[i].provider = "error" /\ i < MAX_RETRIES) => Len(g_attempts) > i
        /\ (\A i \in DOMAIN g_attempts : g_attempts[i].provider = "error") =>
              /\ Len(g_attempts) = MAX_RETRIES
              /\ g_ret = EmptyDefault

(* the three markdown artifacts are in the session and not empty *)
MarkdownPresent(k) == g_session[k].t = "str" /\ g_session[k].v[1] # ""
MarkdownKeys == {"threat_model_markdown", "mitre_attack_markdown", "nvd_vulnerabilities_markdown"}

(* C17: generate_mitigations and generate_dread_assessment call the get_*   *)
(* function only when threat_model_markdown, mitre_attack_markdown and      *)
(* nvd_vulnerabilities_markdown are all in the session and non-empty;       *)
(* otherwise they show an error that names the missing ones and return the  *)
(* empty default without a provider call.                                   *)
C17_NoCallWithoutMarkdown ==
    stage \in {"mitigations", "dread"} =>
        /\ Len(g_attempts) > 0 => \A k \in MarkdownKeys : MarkdownPresent(k)
        /\ (g_pc = "done" /\ \E k \in MarkdownKeys : ~MarkdownPresent(k)) =>
              /\ { g_error[i] : i \in DOMAIN g_error } = { k \in MarkdownKeys : ~MarkdownPresent(k) }
              /\ g_ret = EmptyDefault
              /\ Len(g_attempts) = 0
              /\ g_inner_handled = 0

C17_Witness ==
    /\ g_pc = "done"
    /\ stage = "mitigations"
    /\ model_provider = "OpenAI API"
    /\ Len(g_error) = 2
    /\ g_session["mitre_attack_markdown"] = Str("")
    /\ g_session["nvd_vulnerabilities_markdown"] = Absent

----------------------------------------------------------------------------
(* a process_batch call, once entered, moves through its stages in order    *)
SequentialStep(b) ==
    /\ w_pc[b] = "threat_model" => w_pc'[b] \in {"threat_model", "mitre", "done"}
    /\ w_pc[b] = "mitre" => w_pc'[b] \in {"mitre", "done"}
    /\ w_pc[b] = "done" => w_pc'[b] = "done" /\ w_result'[b] = w_result[b]
    /\ starts'[b] >= starts[b]

(* C18: in batch mode at most 3 process_batch calls execute at the same     *)
(* time, every batch iteration is started at most once, and a started       *)
(* session runs its stages in order until its call returns; the batch loop  *)
(* ends only when every session has returned.                               *)
C18_BoundedPool ==
    /\ [](/\ Cardinality(Running) <= 3
          /\ \A b \in Futures :
                /\ starts[b] <= 1
                /\ w_pc[b] \in {"threat_model", "mitre", "done"} <=> starts[b] = 1
          /\ p_main = "end" => \A b \in Futures : w_pc[b] = "done")
    /\ [][\A b \in Futures : SequentialStep(b)]_vars

C18_Witness ==
    /\ Cardinality(Running) = 3
    /\ Queued # {}
    /\ p_main = "wait"

RecordIdx == { i \in DOMAIN file : file[i].tok = "record" }

(* C19: the appends of result records to the output file exclude each       *)
(* other: at most one handle is open at any time, a separator is followed   *)
(* by the record it was written for, every record is in the file once, the  *)
(* handle is opened and closed once per record, and it is open only for a   *)
(* record whose session has returned, so that no provider call of that      *)
(* session is under way.                                                    *)
C19_ExclusiveAppend ==
    /\ Cardinality(handles) <= 1
    /\ handles # {} <=> p_main \in {"opened", "dump", "written"}
    /\ \A b \in handles : b = cur /\ w_pc[b] = "done"
    /\ \A i \in DOMAIN file :
          file[i].tok = "," =>
              \/ i = Len(file) /\ p_main = "dump" /\ file[i].by = cur
              \/ i < Len(file) /\ file[i + 1] = [tok |-> "record", by |-> file[i].by]
    /\ \A i, j \in RecordIdx : file[i].by = file[j].by => i = j
    /\ Cardinality(RecordIdx) = Len(p_results) + (IF p_main = "written" THEN 1 ELSE 0)

C19_Witness ==
    /\ p_main = "dump"
    /\ Len(p_results) >= 2
    /\ Running # {}
    /\ file[Len(file)].tok = ","

(* C20: when as_completed times out, the sessions still running are not     *)
(* killed: the batch loop ends only after every one of them has returned;   *)
(* and the result of a session that returned after the timeout is never     *)
(* appended to the output file nor to results.                              *)
C20_LateResultsDiscarded ==
    /\ \A i \in DOMAIN file : file[i].by \notin late
    /\ \A i \in DOMAIN p_results : p_results[i] \notin late
    /\ late # {} => timed_out
    /\ timed_out => p_main \in {"timed_out", "end"}
    /\ (timed_out /\ p_main = "end") =>
          \A b \in Futures : w_pc[b] = "done" /\ starts[b] = 1

C20_Witness ==
    /\ timed_out
    /\ p_main = "end"
    /\ Len(p_results) >= 1
    /\ \E b \in late : w_result[b] = "record"

(* C21: the timeout bounds the whole batch: once as_completed has timed     *)
(* out, the main thread can write the closing bracket and go on to the next *)
(* case study at once, whether or not sessions are still queued or running. *)
C21_TimeoutEndsBatch ==
    p_main = "timed_out" => ENABLED PoolExit

(* C22: in batch mode no session is lost silently: a process_batch call     *)
(* that returns None has reported a terminal error through handle_exception *)
(* before it returned, whatever invalid models and exceptions its attempts  *)
(* met.                                                                     *)
C22_NoSilentLoss ==
    (b_pc = "done" /\ b_ret = BatchNone) => b_handled >= 1

(* the records a finished search_nvd or fetch_otx_data selected before  *)
(* rendering, and the number of them whose rendering does not raise     *)
Selected == IF q_op = "search_nvd" THEN q_top_results ELSE q_sorted_pulses

Renderable(x) == IF q_op = "search_nvd" THEN CveRenders(x) ELSE PulseRenders(x)

RawRecords == IF q_op = "search_nvd" THEN q_cve_results ELSE q_pulses

SelectionReturned == q_pc = "done" /\ q_result.type = "str"

(* C23: search_nvd and fetch_otx_data never return more than top_n /      *)
(* max_results records, whatever the number of raw records (fewer than N  *)
(* and zero included) and for every N >= 0, and the Total ... found count *)
(* is the number of records rendered.                                     *)
C23_BoundedOutput ==
    SelectionReturned =>
        /\ Len(q_result.entries) <= q_top_n
        /\ Len(q_result.entries) <= Len(RawRecords)
        /\ q_result.total =
               Cardinality({ i \in DOMAIN Selected : Renderable(Selected[i]) })
        /\ q_result.total = Len(q_result.entries)

C23_Witness ==
    /\ SelectionReturned
    /\ Len(RawRecords) > q_top_n
    /\ q_top_n > 0
    /\ Len(q_result.entries) = q_top_n

(* the order of the claim: severity score, then publication date *)
RanksAbove(a, b) ==
    \/ a.score > b.score
    \/ a.score = b.score /\ a.published > b.published

(* top is a choice of the n highest-ranked records of raw, in descending *)
(* order: no record left out ranks strictly above a chosen one           *)
IsTopOf(top, raw, n, above(_, _)) ==
    /\ Len(top) = Min(n, Len(raw))
    /\ \A i, j \in DOMAIN top : i < j => ~above(top[j], top[i])
    /\ \E f \in [DOMAIN top -> DOMAIN raw] :
          /\ \A i, j \in DOMAIN top : i # j => f[i] # f[j]
          /\ \A i \in DOMAIN top : raw[f[i]] = top[i]
          /\ \A k \in DOMAIN raw :
                (\A i \in DOMAIN top : f[i] # k) =>
                    \A i \in DOMAIN top : ~above(raw[k], top[i])

(* C24 as stated: the records search_nvd renders are the top_n of the     *)
(* feed's results under (severity score descending, publication date      *)
(* descending), in that order, and no omitted record ranks strictly above  *)
(* a returned one.                                                         *)
C24_RenderedAreTopN ==
    (SelectionReturned /\ q_op = "search_nvd") =>
        IsTopOf(q_result.entries, q_cve_results, q_top_n, RanksAbove)

(* C24, amended: the records search_nvd selects are the top_n of the      *)
(* feed's results under (severity score descending, publication date      *)
(* descending), in that order, no record left out ranking strictly above   *)
(* a selected one; it renders the selected records in that order, leaving  *)
(* out those whose rendering raises.                                       *)
C24_SelectedAreTopN ==
    (SelectionReturned /\ q_op = "search_nvd") =>
        /\ IsTopOf(q_top_results, q_cve_results, q_top_n, RanksAbove)
        /\ q_result.entries = SelectSeq(q_top_results, CveRenders)

C24_Witness ==
    /\ SelectionReturned
    /\ q_op = "search_nvd"
    /\ Len(q_cve_results) > q_top_n
    /\ q_result.entries # <<>>
    /\ Len(q_result.entries) < Len(q_top_results)
    /\ \E i, j \in DOMAIN q_cve_results :
          i < j /\ RanksAbove(q_cve_results[j], q_cve_results[i])

(* conditions (a) to (e) of the claim for one pulse *)
MeetsFilters(p) ==
    /\ p.modified >= q_modified_since
    /\ p.public = 1
    /\ q_adversary.t = "None" \/ Contains(lower(p.adversary), lower(q_adversary.v))
    /\ q_malware_family.t = "None"
       \/ \E i \in DOMAIN p.malware_families :
             /\ p.malware_families[i].t = "str"
             /\ lower(p.malware_families[i].v) = lower(q_malware_family.v)
    /\ q_tlp.t = "None" \/ lower(p.TLP) = lower(q_tlp.v)

NewerThan(a, b) == a.modified > b.modified

(* C25 as stated: fetch_otx_data renders a raw pulse only if it meets (a)  *)
(* to (e), and the rendered pulses are exactly the first max_results of    *)
(* the pulses meeting (a) to (e) in descending order of modification.      *)
C25_RenderedAreFilteredTop ==
    (SelectionReturned /\ q_op = "fetch_otx_data") =>
        /\ \A i \in DOMAIN q_result.entries : MeetsFilters(q_result.entries[i])
        /\ IsTopOf(q_result.entries, SelectSeq(q_pulses, MeetsFilters), q_top_n,
                   NewerThan)

(* C25, amended: fetch_otx_data renders a raw pulse only if it meets (a)   *)
(* to (e); the pulses it selects are exactly the first max_results of the  *)
(* pulses meeting (a) to (e) in descending order of modification, and it   *)
(* renders the selected pulses in that order, leaving out those whose      *)
(* rendering raises.                                                       *)
C25_SelectedAreFilteredTop ==
    (SelectionReturned /\ q_op = "fetch_otx_data") =>
        /\ \A i \in DOMAIN q_result.entries : MeetsFilters(q_result.entries[i])
        /\ IsTopOf(q_sorted_pulses, SelectSeq(q_pulses, MeetsFilters), q_top_n,
                   NewerThan)
        /\ q_result.entries = SelectSeq(q_sorted_pulses, PulseRenders)

C25_Witness ==
    /\ SelectionReturned
    /\ q_op = "fetch_otx_data"
    /\ q_adversary.t = "str"
    /\ q_tlp.t = "None"
    /\ Len(q_filtered_pulses) < Len(q_pulses)
    /\ Len(q_sorted_pulses) = q_top_n
    /\ q_result.entries # <<>>
    /\ Len(q_result.entries) < Len(q_sorted_pulses)

PulseSearchFailed(ev) ==
    ev.e = "call" /\ ev.who = "_search_pulses" /\ (ev.cls # "ok" \/ ev.msg = "empty")

FailureMessage(ev) ==
    IF ev.cls = "ok" THEN "No response from OTX API"
    ELSE IF ev.cls = "Timeout" THEN "Timeout while searching pulses"
    ELSE IF ev.cls = "HTTPError" /\ ev.st = 429 THEN "Rate limit exceeded"
    ELSE IF ev.cls = "HTTPError" THEN "HTTP error while searching pulses"
    ELSE "Unexpected error while searching pulses"

HandleIdx == { i \in DOMAIN log : log[i].e = "handle" }

C28_OneLookupPerTechnology ==
    /\ e_pc # "raised"
    /\ e_pc = "prompt" => ENABLED StartGeneration
    /\ e_pc \in {"otx", "prompt", "generate"} =>
          \A t \in DOMAIN nvd_calls : nvd_calls[t] = 1

(* C28, amended: when Generate Threat Model is pressed in a session that  *)
(* holds an NVD API key, search_nvd is invoked exactly once per selected  *)
(* technology whatever the other lookups did; in a session without the    *)
(* key it is not invoked and st.error reports the missing key. In both    *)
(* cases threat-model generation is started afterwards even if every      *)
(* lookup failed, and no exception of a lookup leaves the lookups.        *)
C28_OneLookupPerTechnologyWithKey ==
    /\ e_pc # "raised"
    /\ e_pc = "prompt" => ENABLED StartGeneration
    /\ \A t \in DOMAIN nvd_calls : nvd_calls[t] <= 1
    /\ e_pc \in {"otx", "prompt", "generate"} =>
          /\ \A t \in DOMAIN nvd_calls : nvd_calls[t] = IF nvd_api_key THEN 1 ELSE 0
          /\ nvd_api_key
              \/ \E i \in DOMAIN e_errors :
                    e_errors[i] = "NVD API key is missing or no technologies selected"

C28_Witness ==
    /\ e_pc = "generate"
    /\ nvd_api_key
    /\ alienvault_api_key
    /\ Len(selected_technologies) >= 2
    /\ Len(e_handled) = Len(selected_technologies) + 1
    /\ nvd_vulnerabilities = {}
    /\ \A t \in DOMAIN nvd_calls : nvd_calls[t] = 1

NoCvesFound(ev) == ev.e = "call" /\ ev.who = "_search_cves" /\ ev.cls = "ok" /\ ev.msg = "empty"

C30_ResolvedIdentifier ==
    /\ c_pc # "start" =>
          /\ c_version.t = "absent" => cpe_match_string = cpe_prefix \o <<"*", ":", "*">>
          /\ c_version.t # "absent" =>
                cpe_match_string = cpe_prefix \o c_version.v \o <<":", "*">>
    /\ (c_pc = "done" /\ c_reply.k = "ok" /\ c_reply.data # <<>>) =>
          LET top == c_reply.data[1]
          IN  /\ c_ret.type = "return"
              /\ (top.deprecated /\ top.deprecatedBy # <<>>) =>
                    c_ret.value = Str(top.deprecatedBy[1])
              /\ ~(top.deprecated /\ top.deprecatedBy # <<>>) =>
                    c_ret.value = Str(top.cpeName)

C30_Witness ==
    /\ c_pc = "done"
    /\ c_version.t = "absent"
    /\ cpe_prefix # <<>>
    /\ c_reply.k = "ok"
    /\ c_reply.data # <<>>
    /\ c_reply.data[1].deprecated
    /\ Len(c_reply.data[1].deprecatedBy) >= 2
    /\ c_ret.value = Str(c_reply.data[1].deprecatedBy[1])

(* the keywords of a threat as the claims read them: the items of its     *)
(* keyword list, or its one keyword text                                   *)
ClaimKeywords(threat) ==
    IF KeywordsOf(threat).t = "list" THEN KeywordsOf(threat).v ELSE <<KeywordsOf(threat).v>>

KeywordMatches(obj, threat) ==
    \E i \in DOMAIN ClaimKeywords(threat) :
        \/ Contains(lower(obj.name), lower(ClaimKeywords(threat)[i]))
        \/ Contains(lower(obj.description), lower(ClaimKeywords(threat)[i]))

ExpectedCandidates(threat) ==
    LET matching == SelectSeq(StixObjects,
                              LAMBDA o : o.type = "attack-pattern" /\ KeywordMatches(o, threat))
    IN  SubSeq(matching, 1, Min(Len(matching), MAX_TECHNIQUES))

(* C31: the candidate list built for a threat is made of exactly the first *)
(* MAX_TECHNIQUES catalog objects of type attack-pattern, in catalog order, *)
(* for which at least one keyword of the threat is a case-insensitive       *)
(* substring of the name or the description; every object appears at most   *)
(* once, and objects of other types never appear.                           *)
C31_CandidatesMatchKeywords ==
    \A i \in DOMAIN m_trace :
        m_trace[i].scan =>
            LET relevant == RelevantTechniques(KeywordsOf(m_threat_model[i]))
            IN  /\ relevant = ExpectedCandidates(m_threat_model[i])
                /\ \A a, b \in DOMAIN relevant : a # b => relevant[a].id # relevant[b].id
                /\ \A a \in DOMAIN relevant : relevant[a].type = "attack-pattern"

DreadCall == t_op = "dread_json_to_markdown" /\ t_pc = "done"

(* the hundredths a Risk Score cell stands for *)
Hundredths(cell) == 100 * cell.whole + 10 * cell.decimals[1] + cell.decimals[2]

(* the sub-scores of an entry, an absent one counting as 0 *)
ScoreSum(threat) ==
    LET n(i) == IF threat.scores[i].t = "absent" THEN 0 ELSE threat.scores[i].v[1]
    IN  n(1) + n(2) + n(3) + n(4) + n(5)

IntegerScores(threat) ==
    /\ threat.dict
    /\ \A i \in DOMAIN threat.scores :
          \/ threat.scores[i].t = "absent"
          \/ threat.scores[i].t = "int" /\ threat.scores[i].v[1] \in 0..MaxSubScore

(* C32: for entries whose sub-scores are integers from 0 to 10, an absent *)
(* one counting as 0, the Risk Score cell of a row is the sum of the five  *)
(* divided by 5 and written with exactly two decimals, that is 20 times    *)
(* the sum in hundredths; the table has one row per entry, in the order   *)
(* of the input                                                            *)
C32_RiskScoreTwoDecimals ==
    (DreadCall /\ \A i \in DOMAIN t_threats : IntegerScores(t_threats[i])) =>
        /\ t_ret.type = "return"
        /\ Len(t_rows) = Len(t_threats)
        /\ \A i \in DOMAIN t_rows :
              /\ t_rows[i].threat = t_threats[i]
              /\ Len(t_rows[i].risk.decimals) = 2
              /\ \A k \in 1..2 : t_rows[i].risk.decimals[k] \in 0..9
              /\ Hundredths(t_rows[i].risk) = 20 * ScoreSum(t_threats[i])

C32_Witness ==
    /\ DreadCall
    /\ Len(t_threats) = 2
    /\ \A i \in DOMAIN t_threats : IntegerScores(t_threats[i])
    /\ ScoreSum(t_threats[1]) = 35
    /\ t_rows[1].risk = [whole |-> 7, decimals |-> <<0, 0>>]
    /\ ScoreSum(t_threats[2]) = 50
    /\ t_rows[2].risk = [whole |-> 10, decimals |-> <<0, 0>>]

(* C33: dread_json_to_markdown raises TypeError, and returns no table, if *)
(* an entry of the list is not a dictionary, wherever the entry stands    *)
(* and however many valid entries come before it                          *)
C33_NonDictRaisesTypeError ==
    (DreadCall /\ \E i \in DOMAIN t_threats : ~t_threats[i].dict) =>
        /\ t_ret.type = "raise"
        /\ t_ret.cls = "TypeError"

C33_Witness ==
    /\ DreadCall
    /\ Len(t_threats) = 3
    /\ ~t_threats[3].dict
    /\ Len(t_rows) = 2
    /\ t_ret.type = "raise"

MarkdownDone == t_op = "json_to_markdown" /\ t_pc = "done"

(* C34: json_to_markdown, given a threat list with an entry that is not a *)
(* dictionary, propagates an error to its caller instead of returning a   *)
(* string                                                                  *)
C34_MarkdownPropagatesError ==
    (MarkdownDone /\ \E i \in DOMAIN t_threats : ~t_threats[i].dict) =>
        t_ret.type = "raise"

GeneratorDone == k_pc = "done"

(* C35: a get_* function called with an empty API key or an empty prompt *)
(* raises ValueError and makes no request to the provider                 *)
C35_EmptyArgumentsRaiseValueError ==
    (GeneratorDone /\ (~Truthy(k_api_key) \/ ~Truthy(k_prompt))) =>
        /\ k_ret.type = "raise"
        /\ k_ret.cls = "ValueError"
        /\ k_requests = 0

(* C36: one invocation of process_batch never makes more than retries *)
(* calls of get_threat_model, whatever the calls return or raise        *)
C36_AtMostRetriesCalls == b_calls <= retries

Step3Completed == last = Ended(3, "completed")

(* the threat list handle_mitre_data reads *)
StoredThreatModel == IF In("threat_model") THEN session["threat_model"] ELSE List(<<>>)

(* what the handler stores for the list it rendered *)
RenderingOf(tm) ==
    IF Truthy(tm) THEN json_to_markdown(tm) ELSE Str("No threat model generated.")

(* C37: after a run of Generate Threat Model, the technique mapping       *)
(* (mitre_data, mitre_attack_markdown) is computed from the threat list   *)
(* the run rendered into threat_model_markdown: technique data is never   *)
(* stored next to the rendering of another list, such as the output of a  *)
(* failed run after an earlier run's threats                              *)
C37_TechniquesOfRenderedThreats ==
    (Step3Completed /\ Truthy(session["mitre_data"])) =>
        session["threat_model_markdown"] = RenderingOf(StoredThreatModel)

(* a transition keeps the flags that are set, and sets the flag of a step *)
(* from 2 to 6 only when the flag of the step before it is set            *)
FlagsStep ==
    \A k \in DOMAIN completed :
        /\ completed[k] => completed'[k]
        /\ (k \in 2..6 /\ ~completed[k] /\ completed'[k]) => completed[k - 1]

(* C38: for k from 2 to 6, step{k}_completed implies step{k-1}_completed; *)
(* a step sets its own flag only when the flag of the previous step is    *)
(* set, and no step resets a flag from True to False                      *)
C38_FlagsFormPrefix ==
    /\ [](\A k \in 2..6 : completed[k] => completed[k - 1])
    /\ [][FlagsStep]_vars

C38_Witness ==
    /\ \A k \in 1..6 : completed[k]
    /\ last = Ended(6, "completed")

CaseStudyFinished == p_main = "end"

(* the tokens between the opening and the closing bracket *)
FileBody == SubSeq(file, 2, Len(file) - 1)

(* the batch iterations whose record the file holds, in file order *)
FileRecords ==
    LET recs == SelectSeq(FileBody, LAMBDA x : x.tok = "record")
    IN  [i \in DOMAIN recs |-> recs[i].by]

(* C39: when a case study finishes, whatever sessions failed, returned    *)
(* nothing or were cut off by the timeout, the output file is a          *)
(* well-formed JSON array: an opening bracket, the records with exactly   *)
(* one comma between two consecutive records and none before the first   *)
(* or after the last, and a closing bracket; it holds exactly the        *)
(* non-empty results retrieved before the timeout, at most one record    *)
(* for a batch iteration                                                  *)
C39_OutputIsJsonArray ==
    CaseStudyFinished =>
        /\ Len(file) >= 2
        /\ file[1].tok = "["
        /\ file[Len(file)].tok = "]"
        /\ FileBody = <<>> \/ Len(FileBody) % 2 = 1
        /\ \A j \in DOMAIN FileBody :
              FileBody[j].tok = IF j % 2 = 1 THEN "record" ELSE ","
        /\ FileRecords = p_results
        /\ \A a, b \in DOMAIN FileRecords : a # b => FileRecords[a] # FileRecords[b]
        /\ \A b \in Futures :
              (\E a \in DOMAIN FileRecords : FileRecords[a] = b)
                  <=> (b \in yielded /\ w_result[b] = "record")
        /\ \A a \in DOMAIN FileRecords : FileRecords[a] \notin late

C39_Witness ==
    /\ CaseStudyFinished
    /\ timed_out
    /\ Len(FileRecords) = 2
    /\ \E b \in yielded : w_result[b] = "None"
    /\ \E b \in late : w_result[b] = "record"

(* the provider replied to the selection of iteration i of the loop, and *)
(* the reply, after the fence removals, is not JSON                      *)
NotJsonIdx ==
    { i \in DOMAIN m_trace :
        /\ m_trace[i].sel.body.t \notin {"raise", "nocall"}
        /\ JSONDecodeError(CleanReply(m_trace[i].sel)) }

EmptyArrayReply == LlmReply("", List(<<>>), "")

(* C40: a technique-selection response that cannot be parsed as JSON is   *)
(* handled like an empty JSON array: get_relevant_techniques returns the  *)
(* no-match sentinel, not the empty list, and the threat receives a       *)
(* single technique entry with name Unknown and technique_id N/A          *)
C40_UnparsableIsNoMatch ==
    \A i \in NotJsonIdx :
        /\ m_trace[i].ret = get_relevant_techniques(EmptyArrayReply)
        /\ m_trace[i].ret = List(<<Str(NoMatchId)>>)
        /\ processed_data[i].mitre_techniques =
              << [name |-> <<"Unknown">>, id |-> Str(NoMatchId), technique_id |-> "N/A"] >>

C40_Witness ==
    /\ m_pc = "done"
    /\ \E i \in NotJsonIdx :
          /\ m_trace[i].sel.body.t = "garbage"
          /\ Len(processed_data[i].mitre_techniques) = 1
    /\ \E i \in NotJsonIdx : m_trace[i].sel.pre = "fence"

====
